---------------------------- MODULE Spec2Model ----------------------------
(***************************************************************************)
(* A model of the SpatialEval benchmark: the data loader (load_dataset),   *)
(* the accuracy matcher and heuristic scorers (harness/metrics.py) and the *)
(* evaluation harness (Evaluator.run / _compute_final_scores).             *)
(*                                                                         *)
(* Text is a sequence of one-character strings.  Scores are integers in    *)
(* thousandths (1.0 = 1000).  A decimal number is a pair n, p standing for *)
(* n / 10^p; the arithmetic of the matcher is carried out exactly on such  *)
(* pairs.                                                                  *)
(***************************************************************************)
EXTENDS Integers, Sequences, FiniteSets, TLC

VARIABLES
    files,      \* the data directory: which tasks.json files exist, and their tasks
    pc,         \* where the harness is: idle, ready, config_error, running, aggregated, aborted
    dataset,    \* Evaluator.dataset, as load_dataset returned it
    results,    \* Evaluator.results
    all_tasks,  \* run(): the (category, difficulty, task) triples selected
    calls,      \* the prompts handed to model_fn during the current run
    report,     \* the value run() returned
    exc,        \* the exception that left the harness, or "none"
    runs,       \* how many times run() was entered
    inp,        \* the arguments of the pure function under check
    out,        \* what the pure function returned or raised
    process,    \* how many Python processes have imported generate_dataset_v2
    random_state, \* the state of the random module in the current process
    gpc,        \* where generate_all_tasks is: unloaded, imported, categories, tasks, returned
    loop,       \* its loop indices: category, difficulty and i
    tasks,      \* its list of the tasks generated for the current pair
    summary,    \* its summary dict
    total_tasks, \* its running total
    base_dir,   \* the tasks.json files under base_dir
    generated   \* what each finished invocation wrote, and in which process

vars == <<files, pc, dataset, results, all_tasks, calls, report, exc, runs, inp, out,
          process, random_state, gpc, loop, tasks, summary, total_tasks, base_dir,
          generated>>

harnessVars == <<files, pc, dataset, results, all_tasks, calls, report, exc, runs>>

genVars == <<process, random_state, gpc, loop, tasks, summary, total_tasks, base_dir,
             generated>>

-----------------------------------------------------------------------------
(* Bounds of the model. *)

\* Longest response drawn over the numeric alphabet.
MaxNumLen == 5
\* Longest response and longest expected string drawn over the letter alphabet.
MaxStrLen == 3
MaxGtLen == 2

-----------------------------------------------------------------------------
(* Text: str.lower, str.strip, the `in` operator, str.endswith. *)

UPPER == << "A", "B", "C", "D", "E", "F", "G", "H", "I", "J", "K", "L", "M",
            "N", "O", "P", "Q", "R", "S", "T", "U", "V", "W", "X", "Y", "Z" >>

LOWER == << "a", "b", "c", "d", "e", "f", "g", "h", "i", "j", "k", "l", "m",
            "n", "o", "p", "q", "r", "s", "t", "u", "v", "w", "x", "y", "z" >>

Whitespace == {" ", "\t", "\n", "\r"}

DigitChars == <<"0", "1", "2", "3", "4", "5", "6", "7", "8", "9">>

IsDigit(c) == \E i \in 1..10 : DigitChars[i] = c

DigitVal(c) == (CHOOSE i \in 1..10 : DigitChars[i] = c) - 1

lower_char(c) ==
    IF \E i \in 1..26 : UPPER[i] = c
    THEN LOWER[CHOOSE i \in 1..26 : UPPER[i] = c]
    ELSE c

lower(s) == [i \in 1..Len(s) |-> lower_char(s[i])]

RECURSIVE lstrip(_)
lstrip(s) == IF s # <<>> /\ Head(s) \in Whitespace THEN lstrip(Tail(s)) ELSE s

RECURSIVE rstrip(_)
rstrip(s) ==
    IF s # <<>> /\ s[Len(s)] \in Whitespace
    THEN rstrip(SubSeq(s, 1, Len(s) - 1))
    ELSE s

strip(s) == rstrip(lstrip(s))

\* needle in hay
contains(hay, needle) ==
    \E i \in 0..(Len(hay) - Len(needle)) :
        SubSeq(hay, i + 1, i + Len(needle)) = needle

endswith(s, suffix) ==
    /\ Len(suffix) <= Len(s)
    /\ SubSeq(s, Len(s) - Len(suffix) + 1, Len(s)) = suffix

-----------------------------------------------------------------------------
(* Numbers: re.findall(r"-?\d+\.?\d*", response) and float(num_str). *)

\* The last index of the run of digits of s that starts at a, a-1 if none.
RECURSIVE digits_end(_, _)
digits_end(s, a) ==
    IF a <= Len(s) /\ IsDigit(s[a]) THEN digits_end(s, a + 1) ELSE a - 1

\* The last index of the match of -?\d+\.?\d* that starts at i, 0 if none.
\* Every quantifier is greedy and the tail \.?\d* cannot fail, so the only
\* backtracking is of -?, which then leaves \d+ facing the "-" and fails.
match_end(s, i) ==
    LET a == IF s[i] = "-" THEN i + 1 ELSE i
        b == digits_end(s, a)
    IN  IF b < a THEN 0
        ELSE IF b + 1 <= Len(s) /\ s[b + 1] = "."
             THEN digits_end(s, b + 2)
             ELSE b

\* The non-overlapping matches, left to right.
RECURSIVE findall_from(_, _)
findall_from(s, i) ==
    IF i > Len(s) THEN <<>>
    ELSE LET j == match_end(s, i)
         IN  IF j = 0 THEN findall_from(s, i + 1)
             ELSE <<SubSeq(s, i, j)>> \o findall_from(s, j + 1)

findall(s) == findall_from(s, 1)

reversed(q) == [i \in 1..Len(q) |-> q[Len(q) + 1 - i]]

RECURSIVE Pow10(_)
Pow10(k) == IF k = 0 THEN 1 ELSE 10 * Pow10(k - 1)

\* The natural number a sequence of digits writes.
RECURSIVE digits_value(_)
digits_value(ds) ==
    IF ds = <<>> THEN 0
    ELSE 10 * digits_value(SubSeq(ds, 1, Len(ds) - 1)) + DigitVal(ds[Len(ds)])

\* float(num_str) of a match of the pattern: n / 10^p.
to_float(num_str) ==
    LET neg == num_str[1] = "-"
        body == IF neg THEN Tail(num_str) ELSE num_str
        dots == {i \in 1..Len(body) : body[i] = "."}
        dot == IF dots = {} THEN Len(body) + 1 ELSE CHOOSE i \in dots : TRUE
        ds == SubSeq(body, 1, dot - 1) \o SubSeq(body, dot + 1, Len(body))
        mag == digits_value(ds)
    IN  [n |-> IF neg THEN 0 - mag ELSE mag,
         p |-> IF dot > Len(body) THEN 0 ELSE Len(body) - dot]

Abs(v) == IF v < 0 THEN 0 - v ELSE v

Max(a, b) == IF a >= b THEN a ELSE b

Min(a, b) == IF a <= b THEN a ELSE b

-----------------------------------------------------------------------------
(* Ground truths.  type is the runtime type the matcher branches on:       *)
(* "int" and "float" carry n / 10^p (an int also x, for n * 10^x beyond    *)
(* the machine range of the model), "str" carries text, "list" carries     *)
(* items, "dict" and "none" carry nothing.                                 *)

GInt(n) == [type |-> "int", n |-> n, p |-> 0, x |-> 0, text |-> <<>>, items |-> <<>>]

GBigInt(x) == [type |-> "int", n |-> 1, p |-> 0, x |-> x, text |-> <<>>, items |-> <<>>]

GFloat(n, p) == [type |-> "float", n |-> n, p |-> p, x |-> 0, text |-> <<>>, items |-> <<>>]

GStr(s) == [type |-> "str", n |-> 0, p |-> 0, x |-> 0, text |-> s, items |-> <<>>]

GList(q) == [type |-> "list", n |-> 0, p |-> 0, x |-> 0, text |-> <<>>, items |-> q]

GDict == [type |-> "dict", n |-> 0, p |-> 0, x |-> 0, text |-> <<>>, items |-> <<>>]

GNone == [type |-> "none", n |-> 0, p |-> 0, x |-> 0, text |-> <<>>, items |-> <<>>]

\* isinstance(ground_truth, (int, float))
is_numeric(g) == g.type \in {"int", "float"}

-----------------------------------------------------------------------------
(* harness/metrics.py: compute_accuracy *)

Returned(v) == [exc |-> "none", val |-> v]

Raised(e) == [exc |-> e, val |-> 0]

\* The largest power of ten an int may reach and still convert to a float.
FloatMaxExp10 == 308

\* extracted_num - ground_truth converts an int ground truth to a float, and
\* raises OverflowError when it is too large for one.
int_too_large(g) == g.type = "int" /\ g.x > FloatMaxExp10

\* |c - g| < 1e-6, for c and g written over the common denominator 10^P.
abs_close(diff, P) == IF P <= 6 THEN diff = 0 ELSE diff < Pow10(P - 6)

\* The score one candidate earns, 0 when it falls in no band
\* (the body of the loop over reversed(numbers)).
candidate_score(c, g) ==
    LET P == Max(c.p, g.p)
        cn == c.n * Pow10(P - c.p)
        gn == g.n * Pow10(P - g.p)
        diff == Abs(cn - gn)
        G == Abs(gn)
    IN  IF abs_close(diff, P) THEN 1000
        ELSE IF gn # 0 /\ diff <= (G - 1) \div 100 THEN 900
        ELSE IF gn # 0 /\ diff <= (G - 1) \div 20 THEN 700
        ELSE 0

\* for num_str in reversed(numbers): the first candidate in a band decides.
RECURSIVE scan_candidates(_, _)
scan_candidates(cands, g) ==
    IF cands = <<>> THEN Returned(0)
    ELSE IF int_too_large(g) THEN Raised("OverflowError")
    ELSE LET sc == candidate_score(to_float(Head(cands)), g)
         IN  IF sc # 0 THEN Returned(sc) ELSE scan_candidates(Tail(cands), g)

\* accuracy_numeric that examines the candidates first to last.
accuracy_numeric_forward(response, g) == scan_candidates(findall(response), g)

accuracy_numeric(response, g) == scan_candidates(reversed(findall(response)), g)

\* accuracy_string that compares without folding case.
accuracy_string_case_sensitive(response, g) ==
    IF contains(strip(response), strip(g.text)) THEN Returned(1000)
    ELSE IF endswith(strip(response), strip(g.text)) THEN Returned(1000)
    ELSE Returned(0)

\* accuracy_string that accepts the ground truth only at the end of the response.
accuracy_string_suffix_only(response, g) ==
    IF endswith(strip(lower(response)), strip(lower(g.text))) THEN Returned(1000)
    ELSE Returned(0)

accuracy_string(response, g) ==
    LET response_lower == strip(lower(response))
        gt_lower == strip(lower(g.text))
    IN  IF contains(response_lower, gt_lower) THEN Returned(1000)
        ELSE IF endswith(response_lower, gt_lower) THEN Returned(1000)
        ELSE Returned(0)

RECURSIVE compute_accuracy(_, _)
RECURSIVE accuracy_list(_, _)
\* accuracy_list that gives up after the first member.
accuracy_list_first(response, q) ==
    IF q = <<>> THEN Returned(0)
    ELSE LET r == compute_accuracy(response, Head(q))
         IN  IF r.exc # "none" THEN r
             ELSE IF r.val > 500 THEN Returned(1000)
             ELSE Returned(0)

accuracy_list(response, q) ==
    IF q = <<>> THEN Returned(0)
    ELSE LET r == compute_accuracy(response, Head(q))
         IN  IF r.exc # "none" THEN r
             ELSE IF r.val > 500 THEN Returned(1000)
             ELSE accuracy_list(response, Tail(q))

compute_accuracy(response, ground_truth) ==
    IF is_numeric(ground_truth) THEN accuracy_numeric(response, ground_truth)
    ELSE IF ground_truth.type = "str" THEN accuracy_string(response, ground_truth)
    ELSE IF ground_truth.type = "list" THEN accuracy_list(response, ground_truth.items)
    ELSE Returned(0)

-----------------------------------------------------------------------------
(* str(ground_truth) of a number: the decimal digits of an int; the        *)
(* shortest repr of a float, fixed notation while the decimal point falls  *)
(* within -4 < decpt <= 16 and exponent notation otherwise.                *)

RECURSIVE nat_digits(_)
nat_digits(k) ==
    IF k < 10 THEN <<DigitChars[k + 1]>>
    ELSE nat_digits(k \div 10) \o <<DigitChars[(k % 10) + 1]>>

zeros(k) == [i \in 1..k |-> "0"]

float_repr(n, p) ==
    LET D == nat_digits(Abs(n))
        nd == Len(D)
        decpt == nd - p
        sign == IF n < 0 THEN <<"-">> ELSE <<>>
        e == decpt - 1
        exp2 == IF Abs(e) < 10 THEN <<"0">> \o nat_digits(Abs(e)) ELSE nat_digits(Abs(e))
    IN  IF n = 0 THEN <<"0", ".", "0">>
        ELSE IF decpt > -4 /\ decpt <= 16
        THEN sign \o (IF decpt <= 0 THEN <<"0", ".">> \o zeros(0 - decpt) \o D
                      ELSE IF decpt >= nd THEN D \o <<".", "0">>
                      ELSE SubSeq(D, 1, decpt) \o <<".">> \o SubSeq(D, decpt + 1, nd))
        ELSE sign \o <<Head(D)>> \o (IF nd > 1 THEN <<".">> \o Tail(D) ELSE <<>>)
                  \o <<"e", IF e < 0 THEN "-" ELSE "+">> \o exp2

py_str(g) ==
    IF g.type = "int"
    THEN (IF g.n < 0 THEN <<"-">> ELSE <<>>) \o nat_digits(Abs(g.n)) \o zeros(g.x)
    ELSE float_repr(g.n, g.p)

-----------------------------------------------------------------------------
(* The inputs the matcher is checked on. *)

NumAlphabet == {"4", "2", "0", ".", "-", " "}

StrAlphabet == {"a", "A", "b", " "}

Strings(alphabet, maxlen) == UNION {[1..k -> alphabet] : k \in 0..maxlen}

NumGroundTruths == {GInt(42), GInt(0), GInt(-4), GFloat(204, 1)}

\* Numbers whose str() is fed back to the matcher.
SelfMatchGroundTruths ==
    {GInt(42), GInt(0), GInt(-4), GInt(100), GFloat(155, 1), GFloat(-25, 1),
     GFloat(204, 1), GFloat(0, 0), GFloat(1, 4), GFloat(1, 5), GFloat(-15, 6)}

Call(response, g) == [fn |-> "compute_accuracy", response |-> response, ground_truth |-> g]

\* Responses too long to be drawn letter by letter.
TheAnswerIs42 ==
    <<"T", "h", "e", " ", "a", "n", "s", "w", "e", "r", " ", "i", "s", " ", "4", "2">>

Approximately42_3 ==
    <<"a", "p", "p", "r", "o", "x", "i", "m", "a", "t", "e", "l", "y", " ", "4", "2", ".", "3">>

IDontKnow == <<"I", " ", "d", "o", "n", "'", "t", " ", "k", "n", "o", "w">>

QuadrantI == <<"Q", "u", "a", "d", "r", "a", "n", "t", " ", "I">>

ThePointIsInQuadrantI ==
    <<"T", "h", "e", " ", "p", "o", "i", "n", "t", " ", "i", "s", " ", "i", "n", " ">> \o QuadrantI

TheAnswerIsYes ==
    <<"T", "h", "e", " ", "a", "n", "s", "w", "e", "r", " ", "i", "s", " ", "y", "e", "s">>

CompletelyUnrelatedText ==
    <<"c", "o", "m", "p", "l", "e", "t", "e", "l", "y", " ",
      "u", "n", "r", "e", "l", "a", "t", "e", "d", " ", "t", "e", "x", "t">>

ExampleCalls ==
    {Call(TheAnswerIs42, GInt(42)),
     Call(Approximately42_3, GInt(42)),
     Call(<<"1", "0", "0">>, GInt(42)),
     Call(IDontKnow, GInt(42)),
     Call(<<"4", "2", ".", "3", " ", "1", "0", "0">>, GInt(42)),
     Call(<<"4", "2", " ", "4", "2", ".", "3">>, GInt(42)),
     Call(<<"4", "2", ".", "0", "0", "0", "0", "0", "0", "1">>, GInt(42)),
     Call(<<"4", "2", ".", "0", "0", "0", "0", "0", "2">>, GInt(42)),
     Call(<<"0", ".", "0", "0", "0", "0", "0", "0", "1">>, GInt(0)),
     Call(<<"0", ".", "0", "0", "0", "0", "0", "1">>, GInt(0)),
     Call(<<"5">>, GBigInt(400)),
     Call(<<"n", "o">>, GBigInt(400)),
     Call(<<"5">>, GList(<<GStr(<<"n", "o">>), GBigInt(400)>>)),
     Call(TheAnswerIsYes, GList(<<GStr(<<"y", "e", "s">>), GStr(<<"t", "r", "u", "e">>),
                                  GStr(<<"c", "o", "r", "r", "e", "c", "t">>)>>)),
     Call(ThePointIsInQuadrantI, GStr(QuadrantI)),
     Call(lower(QuadrantI), GStr(QuadrantI)),
     Call(IDontKnow, GStr(QuadrantI))}

StrGroundTruths == {GStr(t) : t \in Strings(StrAlphabet, MaxGtLen)}

\* The members a list of acceptable answers is drawn from.
ListMembers == {GStr(t) : t \in Strings(StrAlphabet, 1)}

MaxListLen == 2

ListGroundTruths == {GList(q) : q \in Strings(ListMembers, MaxListLen)}

OtherGroundTruths == {GDict, GNone}

\* The ground truths the unrelated text is scored against, besides the
\* enumerated ones.
UnrelatedGroundTruths ==
    {GInt(100), GFloat(155, 1), GBigInt(400),
     GStr(QuadrantI), GStr(<<"y", "e", "s">>), GStr(<<"T", "e", "x", "t">>),
     GStr(<<"u", "n", "r", "e", "l", "a", "t", "e", "d">>),
     GList(<<GStr(<<"y", "e", "s">>), GStr(<<"t", "r", "u", "e">>),
             GStr(<<"c", "o", "r", "r", "e", "c", "t">>)>>),
     GList(<<GStr(<<"n", "o">>), GStr(<<"t", "e", "x", "t">>)>>)}

\* The text a caller may pass as response with a ground truth g.
Responses(g) ==
    IF is_numeric(g) THEN Strings(NumAlphabet, MaxNumLen)
    ELSE IF g.type \in {"str", "list"} THEN Strings(StrAlphabet, MaxStrLen)
    ELSE Strings(StrAlphabet, MaxStrLen) \cup Strings(NumAlphabet, 2)

GroundTruths == NumGroundTruths \cup StrGroundTruths \cup ListGroundTruths \cup OtherGroundTruths

-----------------------------------------------------------------------------
(* The harness at rest, for the specifications that exercise one function. *)

NotCalled == [exc |-> "pending", val |-> 0]

NoReport == [kind |-> "none"]

HarnessIdle ==
    /\ files = <<>>
    /\ pc = "idle"
    /\ dataset = <<>>
    /\ results = <<>>
    /\ all_tasks = <<>>
    /\ calls = <<>>
    /\ report = NoReport
    /\ exc = "none"
    /\ runs = 0

\* No process has imported the generator.
GeneratorIdle ==
    /\ process = 0
    /\ random_state = 0
    /\ gpc = "unloaded"
    /\ loop = [c |-> 0, d |-> 0, i |-> 0]
    /\ tasks = <<>>
    /\ summary = [categories |-> <<>>, total_tasks |-> 0]
    /\ total_tasks = 0
    /\ base_dir = <<>>
    /\ generated = <<>>

-----------------------------------------------------------------------------
(* SpecAcc: compute_accuracy applied to one drawn call. *)

InitAcc ==
    /\ HarnessIdle
    /\ GeneratorIdle
    /\ \/ \E g \in GroundTruths : \E r \in Responses(g) : inp = Call(r, g)
       \/ \E g \in SelfMatchGroundTruths : inp = Call(py_str(g), g)
       \/ inp \in ExampleCalls
       \/ \E g \in GroundTruths \cup UnrelatedGroundTruths :
             inp = Call(CompletelyUnrelatedText, g)
    /\ out = NotCalled

Score ==
    /\ inp.fn = "compute_accuracy"
    /\ out.exc = "pending"
    /\ out' = compute_accuracy(inp.response, inp.ground_truth)
    /\ UNCHANGED <<inp, harnessVars, genVars>>

NextAcc == Score

SpecAcc == InitAcc /\ [][NextAcc]_vars

-----------------------------------------------------------------------------
(* spatialops/data.py and spatialeval/data.py: the taxonomy and load_dataset *)

TIER_1_CATEGORIES ==
    <<"coordinate_understanding", "geometric_reasoning",
      "distance_computation", "topological_reasoning">>

TIER_2_CATEGORIES ==
    <<"navigation_pathfinding", "viewpoint_visibility",
      "pattern_recognition", "network_infrastructure">>

TIER_3_CATEGORIES ==
    <<"constraint_based_placement", "resource_allocation",
      "temporal_spatial_reasoning", "real_estate_geospatial">>

CATEGORIES == TIER_1_CATEGORIES \o TIER_2_CATEGORIES \o TIER_3_CATEGORIES

\* CATEGORIES of the earlier package (spatialeval/data.py).
CATEGORIES_V1 ==
    <<"coordinate_understanding", "navigation_pathfinding", "real_estate",
      "network_infrastructure", "geometric_reasoning", "distance_computation">>

DIFFICULTIES == <<"easy", "medium", "hard">>

Elems(q) == {q[i] : i \in 1..Len(q)}

\* An optional argument: None, or a value.
NoArg == [given |-> FALSE, v |-> <<>>]

Given(v) == [given |-> TRUE, v |-> v]

NoTier == [given |-> FALSE, v |-> 0]

\* A dict keeps its keys in the order of their first insertion.
dict_set(d, k, v) ==
    IF \E i \in 1..Len(d) : d[i].key = k
    THEN [i \in 1..Len(d) |-> IF d[i].key = k THEN [key |-> k, value |-> v] ELSE d[i]]
    ELSE Append(d, [key |-> k, value |-> v])

dict_keys(d) == [i \in 1..Len(d) |-> d[i].key]

IndexOf(q, v) == CHOOSE i \in 1..Len(q) : q[i] = v

dict_get(d, k) == d[IndexOf(dict_keys(d), k)].value

\* json.load of <data_dir>/<category>/<difficulty>/tasks.json, [] when the
\* file does not exist.
read_tasks(fs, category, difficulty) ==
    IF <<category, difficulty>> \in DOMAIN fs THEN fs[<<category, difficulty>>] ELSE <<>>

Loaded(d) == [exc |-> "none", val |-> d]

\* for difficulty in difficulties: ... (the inner loop, one category)
RECURSIVE load_difficulties(_, _, _, _)
load_difficulties(fs, category, ds, acc) ==
    IF ds = <<>> THEN Loaded(acc)
    ELSE IF Head(ds) \notin Elems(DIFFICULTIES)
    THEN [exc |-> "ValueError: Unknown difficulty", val |-> <<>>]
    ELSE load_difficulties(fs, category, Tail(ds),
                           dict_set(acc, Head(ds), read_tasks(fs, category, Head(ds))))

\* load_categories that skips an unknown category instead of raising.
RECURSIVE load_categories_skipping(_, _, _, _, _)
load_categories_skipping(fs, known, cats, ds, acc) ==
    IF cats = <<>> THEN Loaded(acc)
    ELSE IF Head(cats) \notin Elems(known)
    THEN load_categories_skipping(fs, known, Tail(cats), ds, acc)
    ELSE LET inner == load_difficulties(fs, Head(cats), ds, <<>>)
         IN  IF inner.exc # "none" THEN inner
             ELSE load_categories_skipping(fs, known, Tail(cats), ds,
                                           dict_set(acc, Head(cats), inner.val))

\* for category in cats_to_load: ... (the outer loop)
RECURSIVE load_categories(_, _, _, _, _)
load_categories(fs, known, cats, ds, acc) ==
    IF cats = <<>> THEN Loaded(acc)
    ELSE IF Head(cats) \notin Elems(known)
    THEN [exc |-> "ValueError: Unknown category", val |-> <<>>]
    ELSE LET inner == load_difficulties(fs, Head(cats), ds, <<>>)
         IN  IF inner.exc # "none" THEN inner
             ELSE load_categories(fs, known, Tail(cats), ds,
                                  dict_set(acc, Head(cats), inner.val))

\* spatialops.data.load_dataset(data_dir, categories, difficulties, tier)
load_dataset(fs, categories, difficulties, tier) ==
    LET ds == IF difficulties.given THEN difficulties.v ELSE DIFFICULTIES
    IN  IF tier.given
        THEN IF tier.v = 1 THEN load_categories(fs, CATEGORIES, TIER_1_CATEGORIES, ds, <<>>)
             ELSE IF tier.v = 2 THEN load_categories(fs, CATEGORIES, TIER_2_CATEGORIES, ds, <<>>)
             ELSE IF tier.v = 3 THEN load_categories(fs, CATEGORIES, TIER_3_CATEGORIES, ds, <<>>)
             ELSE [exc |-> "ValueError: Invalid tier", val |-> <<>>]
        ELSE IF categories.given
        THEN load_categories(fs, CATEGORIES, categories.v, ds, <<>>)
        ELSE load_categories(fs, CATEGORIES, CATEGORIES, ds, <<>>)

\* spatialeval.data.load_dataset(data_dir, categories, difficulties)
load_dataset_v1(fs, categories, difficulties) ==
    load_categories(fs, CATEGORIES_V1,
                    IF categories.given THEN categories.v ELSE CATEGORIES_V1,
                    IF difficulties.given THEN difficulties.v ELSE DIFFICULTIES,
                    <<>>)

\* get_task_count(dataset): the sum of len(tasks) over every category and
\* difficulty.
RECURSIVE count_category(_)
count_category(category_data) ==
    IF category_data = <<>> THEN 0
    ELSE Len(Head(category_data).value) + count_category(Tail(category_data))

RECURSIVE get_task_count(_)
get_task_count(d) ==
    IF d = <<>> THEN 0 ELSE count_category(Head(d).value) + get_task_count(Tail(d))

-----------------------------------------------------------------------------
(* The data directories and the arguments load_dataset is checked on. *)

\* Most tasks a tasks.json file holds.
MaxPerFile == 2
\* Longest categories= and difficulties= list.
MaxArgLen == 2

CATEGORY_CODES(c) ==
    CASE c = "coordinate_understanding" -> "CU"
      [] c = "geometric_reasoning" -> "GR"
      [] c = "distance_computation" -> "DC"
      [] c = "topological_reasoning" -> "TR"
      [] c = "navigation_pathfinding" -> "NP"
      [] c = "viewpoint_visibility" -> "VVA"
      [] c = "pattern_recognition" -> "PRA"
      [] c = "network_infrastructure" -> "NI"
      [] c = "constraint_based_placement" -> "CBP"
      [] c = "resource_allocation" -> "RAO"
      [] c = "temporal_spatial_reasoning" -> "TSR"
      [] c = "real_estate_geospatial" -> "RE"
      [] OTHER -> "UNK"

\* The pairs that have a tasks.json in the modelled data directories.
FileKeys ==
    {<<"coordinate_understanding", "easy">>, <<"coordinate_understanding", "hard">>,
     <<"navigation_pathfinding", "easy">>}

\* The k-th task of a file: a numeric answer for pathfinding, a word otherwise.
TaskOf(c, d, k) ==
    [task_id |-> <<CATEGORY_CODES(c), d, k>>,
     prompt |-> <<c, d, k>>,
     ground_truth |-> IF c = "navigation_pathfinding" THEN GInt(42)
                      ELSE IF k = 1 THEN GStr(<<"N", "o">>) ELSE GStr(<<"Y", "e", "s">>)]

FileSystems ==
    {[key \in FileKeys |-> [k \in 1..cnt[key] |-> TaskOf(key[1], key[2], k)]] :
        cnt \in [FileKeys -> 0..MaxPerFile]}

ArgCategories == {"coordinate_understanding", "navigation_pathfinding", "invalid_category"}

ArgDifficulties == {"easy", "hard", "impossible"}

OptionalLists(names) == {NoArg} \cup {Given(q) : q \in Strings(names, MaxArgLen)}

TierArgs == {NoTier} \cup {[given |-> TRUE, v |-> t] : t \in 0..4}

LoadCalls ==
    {[fn |-> "load_dataset", categories |-> c, difficulties |-> d, tier |-> t] :
        c \in OptionalLists(ArgCategories), d \in OptionalLists(ArgDifficulties),
        t \in TierArgs}
    \cup {[fn |-> "load_dataset_v1", categories |-> c, difficulties |-> d, tier |-> NoTier] :
        c \in OptionalLists(ArgCategories), d \in OptionalLists(ArgDifficulties)}

-----------------------------------------------------------------------------
(* SpecLoad: load_dataset applied to one drawn call on one data directory. *)

\* Data directories whose files all hold the same number of tasks.
LoadDataDirs ==
    {[key \in FileKeys |-> [k \in 1..cnt |-> TaskOf(key[1], key[2], k)]] :
        cnt \in 0..MaxPerFile}

InitLoad ==
    /\ GeneratorIdle
    /\ files \in LoadDataDirs
    /\ pc = "idle"
    /\ dataset = <<>>
    /\ results = <<>>
    /\ all_tasks = <<>>
    /\ calls = <<>>
    /\ report = NoReport
    /\ exc = "none"
    /\ runs = 0
    /\ inp \in LoadCalls
    /\ out = [exc |-> "pending", val |-> <<>>]

Load ==
    /\ inp.fn = "load_dataset"
    /\ out.exc = "pending"
    /\ out' = load_dataset(files, inp.categories, inp.difficulties, inp.tier)
    /\ UNCHANGED <<inp, harnessVars, genVars>>

LoadV1 ==
    /\ inp.fn = "load_dataset_v1"
    /\ out.exc = "pending"
    /\ out' = load_dataset_v1(files, inp.categories, inp.difficulties)
    /\ UNCHANGED <<inp, harnessVars, genVars>>

NextLoad == Load \/ LoadV1

SpecLoad == InitLoad /\ [][NextLoad]_vars

-----------------------------------------------------------------------------
(* harness/metrics.py: compute_reasoning_score, compute_efficiency_score,  *)
(* compute_spatialeval_score                                               *)

reasoning_indicators ==
    <<<<"f", "i", "r", "s", "t">>,
      <<"s", "e", "c", "o", "n", "d">>,
      <<"t", "h", "e", "n">>,
      <<"n", "e", "x", "t">>,
      <<"t", "h", "e", "r", "e", "f", "o", "r", "e">>,
      <<"t", "h", "u", "s">>,
      <<"b", "e", "c", "a", "u", "s", "e">>,
      <<"s", "i", "n", "c", "e">>,
      <<"s", "t", "e", "p">>,
      <<"c", "a", "l", "c", "u", "l", "a", "t", "e">>,
      <<"c", "o", "m", "p", "u", "t", "e">>,
      <<"t", "h", "e", " ", "f", "o", "r", "m", "u", "l", "a">>,
      <<"u", "s", "i", "n", "g">>,
      <<"a", "p", "p", "l", "y", "i", "n", "g">>,
      <<"w", "e", " ", "g", "e", "t">>,
      <<"w", "e", " ", "h", "a", "v", "e">>>>

OperatorChars == {"+", "-", "*", "/", "="}

\* The first index at or after i that holds no whitespace.
RECURSIVE skip_space(_, _)
skip_space(s, i) ==
    IF i <= Len(s) /\ s[i] \in Whitespace THEN skip_space(s, i + 1) ELSE i

\* re.search(r"\d+\s*[\+\-\*\/\=]\s*\d+", response)
has_arithmetic(s) ==
    \E i \in 1..Len(s) :
        /\ IsDigit(s[i])
        /\ LET j == skip_space(s, i + 1)
           IN  /\ j <= Len(s)
               /\ s[j] \in OperatorChars
               /\ LET k == skip_space(s, j + 1)
                  IN  k <= Len(s) /\ IsDigit(s[k])

MarkerWords ==
    {<<"a", "n", "s", "w", "e", "r">>, <<"r", "e", "s", "u", "l", "t">>,
     <<"s", "o", "l", "u", "t", "i", "o", "n">>}

\* re.search(r"(answer|result|solution)[\s:]+", response_lower)
has_marker(s) ==
    \E w \in MarkerWords :
        \E i \in 0..(Len(s) - Len(w) - 1) :
            /\ SubSeq(s, i + 1, i + Len(w)) = w
            /\ s[i + Len(w) + 1] \in Whitespace \cup {":"}

\* compute_reasoning_score without the cap on the indicators' contribution.
compute_reasoning_score_uncapped(response) ==
    LET response_lower == lower(response)
        indicator_count ==
            Cardinality({i \in 1..Len(reasoning_indicators) :
                            contains(response_lower, reasoning_indicators[i])})
        score == 500 + indicator_count * 50
                     + (IF has_arithmetic(response) THEN 100 ELSE 0)
                     + (IF has_marker(response_lower) THEN 100 ELSE 0)
    IN  Min(score, 1000)

compute_reasoning_score(response) ==
    LET response_lower == lower(response)
        indicator_count ==
            Cardinality({i \in 1..Len(reasoning_indicators) :
                            contains(response_lower, reasoning_indicators[i])})
        score == 500 + Min(indicator_count * 50, 300)
                     + (IF has_arithmetic(response) THEN 100 ELSE 0)
                     + (IF has_marker(response_lower) THEN 100 ELSE 0)
    IN  Min(score, 1000)

\* len(response.split()): the number of maximal runs of non-whitespace.
word_count(s) ==
    Cardinality({i \in 1..Len(s) :
                    s[i] \notin Whitespace /\ (i = 1 \/ s[i - 1] \in Whitespace)})

\* compute_efficiency_score that adds half of the short-response ramp to 0.5.
compute_efficiency_score_ramp(response) ==
    LET wc == word_count(response)
    IN  IF 50 <= wc /\ wc <= 200 THEN 1000
        ELSE IF wc < 50 THEN 500 + wc * 10
        ELSE Max(300, 1000 - 2 * (wc - 200))

\* compute_efficiency_score without the floor for long responses.
compute_efficiency_score_no_floor(response) ==
    LET wc == word_count(response)
    IN  IF 50 <= wc /\ wc <= 200 THEN 1000
        ELSE IF wc < 50 THEN Max(500, wc * 20)
        ELSE 1000 - 2 * (wc - 200)

compute_efficiency_score(response) ==
    LET wc == word_count(response)
    IN  IF 50 <= wc /\ wc <= 200 THEN 1000
        ELSE IF wc < 50 THEN Max(500, wc * 20)
        ELSE Max(300, 1000 - 2 * (wc - 200))

\* round(num / den) to the nearest integer, ties to the even one.
round_half_even(num, den) ==
    LET q == num \div den
        r == num % den
    IN  IF 2 * r < den THEN q
        ELSE IF 2 * r > den THEN q + 1
        ELSE IF q % 2 = 0 THEN q ELSE q + 1

\* compute_spatialeval_score with weights given in tenths.
compute_spatialeval_score_weights(acc, reas, eff, den, weights) ==
    round_half_even(weights[1] * acc + weights[2] * reas + weights[3] * eff, den)

\* compute_spatialeval_score that cuts the score off after two decimals.
compute_spatialeval_score_truncated(acc, reas, eff, den) ==
    (5 * acc + 3 * reas + 2 * eff) \div den

\* compute_spatialeval_score with the weights taken as percentages.
compute_spatialeval_score_percent(acc, reas, eff, den) ==
    round_half_even(100 * (5 * acc + 3 * reas + 2 * eff), den)

\* compute_spatialeval_score with the default weights (0.5, 0.3, 0.2), of
\* components given in thousandths as fractions acc/den, reas/den, eff/den:
\* the score in hundredths of a point (round(score, 2)).
compute_spatialeval_score(acc, reas, eff, den) ==
    round_half_even(5 * acc + 3 * reas + 2 * eff, den)

-----------------------------------------------------------------------------
(* SpecScore: the heuristic scorers and the composite applied to one drawn *)
(* call.                                                                   *)

\* Most words of a response whose efficiency is scored.
MaxWords == 700
\* Most fragments a response whose reasoning is scored is put together from.
MaxFragments == 3

\* " ".join(["a"] * w)
WordsResponse(w) == [i \in 1..(2 * w - 1) |-> IF i % 2 = 1 THEN "a" ELSE " "]

EfficiencyCall(response) == [fn |-> "compute_efficiency_score", response |-> response]

ReasoningCall(response) == [fn |-> "compute_reasoning_score", response |-> response]

ReasoningFragments ==
    {<<"F", "i", "r", "s", "t", ",", " ">>,
     <<"t", "h", "e", "n", " ">>,
     <<"t", "h", "u", "s", " ">>,
     <<"S", "t", "e", "p", " ">>,
     <<"w", "e", " ", " ", "h", "a", "v", "e", " ">>,
     <<"1", " ", "+", " ", "2">>,
     <<"3", "=", "4", " ">>,
     <<"A", "n", "s", "w", "e", "r", ":", " ">>,
     <<"r", "e", "s", "u", "l", "t">>,
     <<"n", "o", " ">>,
     <<"x", "-", "y", " ">>}

RECURSIVE concat(_)
concat(q) == IF q = <<>> THEN <<>> ELSE Head(q) \o concat(Tail(q))

FortyTwo == <<"4", "2">>

StepByStep ==
    <<"F", "i", "r", "s", "t", ",", " ", "I", " ", "c", "a", "l", "c", "u",
      "l", "a", "t", "e", " ", "t", "h", "e", " ", "d", "i", "s", "t", "a",
      "n", "c", "e", ".", " ", "T", "h", "e", "n", ",", " ", "I", " ", "a",
      "p", "p", "l", "y", " ", "t", "h", "e", " ", "f", "o", "r", "m", "u",
      "l", "a", ".", " ", "T", "h", "e", "r", "e", "f", "o", "r", "e", ",",
      " ", "t", "h", "e", " ", "a", "n", "s", "w", "e", "r", " ", "i", "s",
      " ", "4", "2", ".">>

MathNotation ==
    <<"T", "h", "e", " ", "c", "a", "l", "c", "u", "l", "a", "t", "i", "o",
      "n", " ", "i", "s", " ", "1", "0", " ", "+", " ", "5", " ", "=", " ",
      "1", "5", ".", " ", "T", "h", "e", "r", "e", "f", "o", "r", "e", ",",
      " ", "t", "h", "e", " ", "a", "n", "s", "w", "e", "r", " ", "i", "s",
      " ", "1", "5", ".">>

\* Every phrase of the lexicon, once.
AllIndicators ==
    <<"f", "i", "r", "s", "t", " ", "s", "e", "c", "o", "n", "d", " ", "t",
      "h", "e", "n", " ", "n", "e", "x", "t", " ", "t", "h", "e", "r", "e",
      "f", "o", "r", "e", " ", "t", "h", "u", "s", " ", "b", "e", "c", "a",
      "u", "s", "e", " ", "s", "i", "n", "c", "e", " ", "s", "t", "e", "p",
      " ", "c", "a", "l", "c", "u", "l", "a", "t", "e", " ", "c", "o", "m",
      "p", "u", "t", "e", " ", "t", "h", "e", " ", "f", "o", "r", "m", "u",
      "l", "a", " ", "u", "s", "i", "n", "g", " ", "a", "p", "p", "l", "y",
      "i", "n", "g", " ", "w", "e", " ", "g", "e", "t", " ", "w", "e", " ",
      "h", "a", "v", "e">>

SixIndicators ==
    <<"f", "i", "r", "s", "t", " ", "s", "e", "c", "o", "n", "d", " ", "n",
      "e", "x", "t", " ", "t", "h", "u", "s", " ", "b", "e", "c", "a", "u",
      "s", "e", " ", "s", "i", "n", "c", "e">>

SevenIndicatorsAndMore ==
    <<"S", "o", "l", "u", "t", "i", "o", "n", ":", " ", "f", "i", "r", "s",
      "t", " ", "s", "e", "c", "o", "n", "d", " ", "n", "e", "x", "t", " ",
      "t", "h", "u", "s", " ", "b", "e", "c", "a", "u", "s", "e", " ", "s",
      "i", "n", "c", "e", " ", "u", "s", "i", "n", "g", " ", "7", " ", "*",
      " ", "6">>

ReasoningExamples ==
    {FortyTwo, StepByStep, MathNotation, AllIndicators, SixIndicators, SevenIndicatorsAndMore}

\* The component scores the composite is computed from, in thousandths, as
\* sums over den results.
ComponentSums(den) ==
    IF den = 1 THEN {0, 300, 500, 550, 700, 900, 1000}
    ELSE {0, 1000, den * 1000 - 300, den * 1000}

\* weights, in tenths.
WeightsArgs ==
    {NoArg, Given(<<5, 3, 2>>), Given(<<2, 3, 5>>), Given(<<10, 10, 10>>),
     Given(<<5, 3, 1>>), Given(<<0, 0, 0>>)}

CompositeCall(acc, reas, eff, den, weights) ==
    [fn |-> "compute_spatialeval_score", accuracy |-> acc, reasoning |-> reas,
     efficiency |-> eff, den |-> den, weights |-> weights]

InitScore ==
    /\ HarnessIdle
    /\ GeneratorIdle
    /\ \/ \E w \in 0..MaxWords : inp = EfficiencyCall(WordsResponse(w))
       \/ \E r \in Strings(StrAlphabet, MaxStrLen) : inp = EfficiencyCall(r)
       \/ \E q \in Strings(ReasoningFragments, MaxFragments) : inp = ReasoningCall(concat(q))
       \/ \E r \in ReasoningExamples : inp = ReasoningCall(r)
       \/ \E den \in {1, 3} :
             \E a \in ComponentSums(den), r \in ComponentSums(den), e \in ComponentSums(den) :
                \E w \in WeightsArgs : inp = CompositeCall(a, r, e, den, w)
    /\ out = NotCalled

ScoreEfficiency ==
    /\ inp.fn = "compute_efficiency_score"
    /\ out.exc = "pending"
    /\ out' = Returned(compute_efficiency_score(inp.response))
    /\ UNCHANGED <<inp, harnessVars, genVars>>

ScoreReasoning ==
    /\ inp.fn = "compute_reasoning_score"
    /\ out.exc = "pending"
    /\ out' = Returned(compute_reasoning_score(inp.response))
    /\ UNCHANGED <<inp, harnessVars, genVars>>

ScoreComposite ==
    /\ inp.fn = "compute_spatialeval_score"
    /\ out.exc = "pending"
    /\ out' = Returned(IF inp.weights.given
                       THEN compute_spatialeval_score_weights(
                                inp.accuracy, inp.reasoning, inp.efficiency, inp.den,
                                inp.weights.v)
                       ELSE compute_spatialeval_score(
                                inp.accuracy, inp.reasoning, inp.efficiency, inp.den))
    /\ UNCHANGED <<inp, harnessVars, genVars>>

NextScore == ScoreEfficiency \/ ScoreReasoning \/ ScoreComposite

SpecScore == InitScore /\ [][NextScore]_vars

-----------------------------------------------------------------------------
(* spatialops/harness/evaluator.py: Evaluator *)

\* Most run() calls on one Evaluator.
MaxRuns == 2
\* Largest max_tasks passed to run().
MaxCap == 2

\* What model_fn may answer.
ModelResponses ==
    {<<"a", "n", "s", "w", "e", "r", ":", " ", "4", "2">>, <<"N", "o">>}

\* The constructor arguments the harness is run with.
CtorCategories ==
    {NoArg,
     Given(<<"navigation_pathfinding", "coordinate_understanding">>),
     Given(<<"coordinate_understanding">>),
     Given(<<"coordinate_understanding", "invalid_category">>)}

CtorDifficulties ==
    {NoArg,
     Given(<<"hard", "easy">>),
     Given(<<"easy">>),
     Given(<<"easy", "impossible">>)}

MaxTasksArgs == {NoTier} \cup {[given |-> TRUE, v |-> m] : m \in -1..MaxCap}

\* all_tasks: every (category, difficulty, task) of the dataset, by the
\* nested loops over dataset.items(), category_data.items() and tasks.
RECURSIVE flatten_difficulties(_, _)
flatten_difficulties(category, category_data) ==
    IF category_data = <<>> THEN <<>>
    ELSE [k \in 1..Len(Head(category_data).value) |->
            [category |-> category,
             difficulty |-> Head(category_data).key,
             task |-> Head(category_data).value[k]]]
         \o flatten_difficulties(category, Tail(category_data))

\* flatten_dataset with the categories taken last to first.
RECURSIVE flatten_dataset_reversed(_)
flatten_dataset_reversed(d) ==
    IF d = <<>> THEN <<>>
    ELSE flatten_dataset_reversed(Tail(d)) \o flatten_difficulties(Head(d).key, Head(d).value)

RECURSIVE flatten_dataset(_)
flatten_dataset(d) ==
    IF d = <<>> THEN <<>>
    ELSE flatten_difficulties(Head(d).key, Head(d).value) \o flatten_dataset(Tail(d))

\* q[:m]
slice_to(q, m) ==
    IF m >= 0 THEN SubSeq(q, 1, Min(m, Len(q)))
    ELSE SubSeq(q, 1, Max(Len(q) + m, 0))

select_tasks(d, max_tasks) ==
    IF max_tasks.given THEN slice_to(flatten_dataset(d), max_tasks.v)
    ELSE flatten_dataset(d)

\* The result dict with category and difficulty taken from each other.
make_result_swapped(entry, response, accuracy) ==
    [task_id |-> entry.task.task_id,
     category |-> entry.difficulty,
     difficulty |-> entry.category,
     prompt |-> entry.task.prompt,
     ground_truth |-> entry.task.ground_truth,
     response |-> response,
     accuracy |-> accuracy,
     reasoning_score |-> compute_reasoning_score(response),
     efficiency_score |-> compute_efficiency_score(response)]

\* The result dict of one loop iteration.
make_result(entry, response, accuracy) ==
    [task_id |-> entry.task.task_id,
     category |-> entry.category,
     difficulty |-> entry.difficulty,
     prompt |-> entry.task.prompt,
     ground_truth |-> entry.task.ground_truth,
     response |-> response,
     accuracy |-> accuracy,
     reasoning_score |-> compute_reasoning_score(response),
     efficiency_score |-> compute_efficiency_score(response)]

RECURSIVE sum_accuracy(_)
sum_accuracy(rs) == IF rs = <<>> THEN 0 ELSE Head(rs).accuracy + sum_accuracy(Tail(rs))

RECURSIVE sum_reasoning(_)
sum_reasoning(rs) ==
    IF rs = <<>> THEN 0 ELSE Head(rs).reasoning_score + sum_reasoning(Tail(rs))

RECURSIVE sum_efficiency(_)
sum_efficiency(rs) ==
    IF rs = <<>> THEN 0 ELSE Head(rs).efficiency_score + sum_efficiency(Tail(rs))

Mean(total, count) == [num |-> total, den |-> count]

\* The per-category selection that keeps every result.
of_category_unfiltered(rs, category) == rs

of_category(rs, category) == SelectSeq(rs, LAMBDA r : r.category = category)

\* The per-category breakdown, over dataset.keys() in order.
RECURSIVE category_scores(_, _)
category_scores(rs, keys) ==
    IF keys = <<>> THEN <<>>
    ELSE LET cat_results == of_category(rs, Head(keys))
             k == Len(cat_results)
             rest == category_scores(rs, Tail(keys))
         IN  IF cat_results = <<>> THEN rest
             ELSE <<[key |-> Head(keys),
                     value |-> [accuracy |-> Mean(sum_accuracy(cat_results), k),
                                reasoning |-> Mean(sum_reasoning(cat_results), k),
                                efficiency |-> Mean(sum_efficiency(cat_results), k),
                                score |-> compute_spatialeval_score(
                                              sum_accuracy(cat_results),
                                              sum_reasoning(cat_results),
                                              sum_efficiency(cat_results), k)]]>>
                  \o rest

compute_final_scores(rs, d) ==
    IF rs = <<>> THEN [kind |-> "error"]
    ELSE [kind |-> "scores",
          overall_score |-> compute_spatialeval_score(
                                sum_accuracy(rs), sum_reasoning(rs),
                                sum_efficiency(rs), Len(rs)),
          accuracy |-> Mean(sum_accuracy(rs), Len(rs)),
          reasoning |-> Mean(sum_reasoning(rs), Len(rs)),
          efficiency |-> Mean(sum_efficiency(rs), Len(rs)),
          num_tasks |-> Len(rs),
          per_category |-> category_scores(rs, dict_keys(d))]

NoCtor == [fn |-> "Evaluator", categories |-> NoArg, difficulties |-> NoArg,
           max_tasks |-> NoTier]

Init ==
    /\ GeneratorIdle
    /\ files \in FileSystems
    /\ pc = "idle"
    /\ dataset = <<>>
    /\ results = <<>>
    /\ all_tasks = <<>>
    /\ calls = <<>>
    /\ report = NoReport
    /\ exc = "none"
    /\ runs = 0
    /\ inp = NoCtor
    /\ out = NotCalled

\* Evaluator(model_fn, data_dir, categories, difficulties)
Construct(categories, difficulties) ==
    /\ inp.fn = "Evaluator"
    /\ pc = "idle"
    /\ inp' = [inp EXCEPT !.categories = categories, !.difficulties = difficulties]
    /\ LET loaded == load_dataset(files, categories, difficulties, NoTier)
       IN  IF loaded.exc = "none"
           THEN /\ dataset' = loaded.val
                /\ pc' = "ready"
                /\ exc' = "none"
           ELSE /\ dataset' = <<>>
                /\ pc' = "config_error"
                /\ exc' = loaded.exc
    /\ UNCHANGED <<files, results, all_tasks, calls, report, runs, out, genVars>>

\* run(max_tasks): up to the loop over the selected tasks.
RunStart(max_tasks) ==
    /\ pc \in {"ready", "aggregated", "aborted"}
    /\ runs < MaxRuns
    /\ runs' = runs + 1
    /\ inp' = [inp EXCEPT !.max_tasks = max_tasks]
    /\ results' = <<>>
    /\ all_tasks' = select_tasks(dataset, max_tasks)
    /\ calls' = <<>>
    /\ report' = NoReport
    /\ exc' = "none"
    /\ pc' = "running"
    /\ UNCHANGED <<files, dataset, out, genVars>>

\* One iteration of the loop in which model_fn answers.
Evaluate(response) ==
    /\ pc = "running"
    /\ Len(results) < Len(all_tasks)
    /\ LET entry == all_tasks[Len(results) + 1]
           acc == compute_accuracy(response, entry.task.ground_truth)
       IN  /\ calls' = Append(calls, entry.task.prompt)
           /\ IF acc.exc = "none"
              THEN /\ results' = Append(results, make_result(entry, response, acc.val))
                   /\ UNCHANGED <<pc, exc>>
              ELSE /\ pc' = "aborted"
                   /\ exc' = acc.exc
                   /\ UNCHANGED results
    /\ UNCHANGED <<files, dataset, all_tasks, report, runs, inp, out, genVars>>

\* One iteration of the loop in which model_fn raises: nothing in run()
\* catches it.
ModelFails ==
    /\ pc = "running"
    /\ Len(results) < Len(all_tasks)
    /\ calls' = Append(calls, all_tasks[Len(results) + 1].task.prompt)
    /\ pc' = "aborted"
    /\ exc' = "ModelError"
    /\ UNCHANGED <<files, dataset, results, all_tasks, report, runs, inp, out, genVars>>

\* return self._compute_final_scores()
Aggregate ==
    /\ pc = "running"
    /\ Len(results) = Len(all_tasks)
    /\ report' = compute_final_scores(results, dataset)
    /\ pc' = "aggregated"
    /\ UNCHANGED <<files, dataset, results, all_tasks, calls, exc, runs, inp, out, genVars>>

Next ==
    \/ \E c \in CtorCategories, d \in CtorDifficulties : Construct(c, d)
    \/ \E m \in MaxTasksArgs : RunStart(m)
    \/ \E r \in ModelResponses : Evaluate(r)
    \/ ModelFails
    \/ Aggregate

Spec == Init /\ [][Next]_vars

\* SpecConfig: load_dataset on its own and inside the constructor.
SpecConfig == (InitLoad \/ Init) /\ [][NextLoad \/ Next]_vars

-----------------------------------------------------------------------------
(* The dataset generator (data/generate_dataset_v2.py).                    *)
(* Every generator draws its instance from the module-level random         *)
(* generator and renders the prompt and the ground truth from what it      *)
(* drew. A task keeps the numbers drawn, in the order drawn, as params;    *)
(* a branch whose later draws depend on earlier ones keeps its leading     *)
(* draws. The pathfinding generator is modelled in full.                   *)

\* Tasks generated per (category, difficulty) pair; 167 in the source.
TASKS_PER_DIFFICULTY == 2
\* Most invocations of generate_all_tasks followed.
MaxInvocations == 2

GeneratorCategories ==
    <<"coordinate_understanding", "geometric_reasoning", "distance_computation",
      "topological_reasoning", "navigation_pathfinding", "viewpoint_visibility",
      "pattern_recognition", "network_infrastructure", "constraint_based_placement",
      "resource_allocation", "temporal_spatial_reasoning", "real_estate_geospatial">>

GeneratorDifficulties == <<"easy", "medium", "hard">>

\* The random module: a seeded, deterministic stream. A 16-bit linear
\* congruential generator stands for the Mersenne Twister; a draw is taken
\* from the high bits of the state that follows.
RandomModulus == 65536
RandomMultiplier == 25173
RandomIncrement == 13849

seed(a) == a % RandomModulus

advance(x) == (x * RandomMultiplier + RandomIncrement) % RandomModulus

\* random.randint(a, b) in state x; the state afterwards is advance(x).
\* random.choice, random.random() < 0.5 are draws of an index and of a bit.
randint(x, a, b) == a + ((advance(x) \div 256) % (b - a + 1))

\* The draws of the given ranges, one after the other.
RECURSIVE draw_all(_, _)
draw_all(x, ranges) ==
    IF ranges = <<>>
    THEN [random_state |-> x, values |-> <<>>]
    ELSE LET v == randint(x, Head(ranges)[1], Head(ranges)[2])
             rest == draw_all(advance(x), Tail(ranges))
         IN  [random_state |-> rest.random_state, values |-> <<v>> \o rest.values]

manhattan_distance(p1, p2) == Abs(p1[1] - p2[1]) + Abs(p1[2] - p2[2])

\* heapq orders its (f_score, (x, y)) entries as Python orders tuples.
entry_less(a, b) ==
    \/ a[1] < b[1]
    \/ /\ a[1] = b[1]
       /\ \/ a[2][1] < b[2][1]
          \/ a[2][1] = b[2][1] /\ a[2][2] < b[2][2]

heappop(open_set) == CHOOSE e \in open_set : \A o \in open_set \ {e} : entry_less(e, o)

Directions == <<<<0, 1>>, <<0, -1>>, <<1, 0>>, <<-1, 0>>>>

\* The loop over the four neighbours of current; g_score holds -1 for a
\* cell that is not in the dict.
RECURSIVE a_star_neighbors(_, _, _, _, _)
a_star_neighbors(grid, end, current, dirs, st) ==
    IF dirs = <<>> THEN st
    ELSE LET neighbor == <<current[1] + Head(dirs)[1], current[2] + Head(dirs)[2]>>
             inside == /\ 0 <= neighbor[1] /\ neighbor[1] < Len(grid)
                       /\ 0 <= neighbor[2] /\ neighbor[2] < Len(grid[1])
             tentative_g == st.g_score[current] + 1
             improves == /\ inside
                         /\ grid[neighbor[1] + 1][neighbor[2] + 1] # 1
                         /\ \/ st.g_score[neighbor] = -1
                            \/ tentative_g < st.g_score[neighbor]
             f_score == tentative_g + manhattan_distance(neighbor, end)
         IN  a_star_neighbors(grid, end, current, Tail(dirs),
                 IF improves
                 THEN [open_set |-> st.open_set \cup {<<f_score, neighbor>>},
                       g_score |-> [st.g_score EXCEPT ![neighbor] = tentative_g]]
                 ELSE st)

RECURSIVE a_star_loop(_, _, _)
a_star_loop(grid, end, st) ==
    IF st.open_set = {} THEN -1
    ELSE LET top == heappop(st.open_set)
             current == top[2]
         IN  IF current = end THEN st.g_score[current]
             ELSE a_star_loop(grid, end,
                     a_star_neighbors(grid, end, current, Directions,
                         [st EXCEPT !.open_set = st.open_set \ {top}]))

\* a_star that counts the cells of the path instead of its moves.
a_star_counting_cells(grid, start, end) ==
    a_star_loop(grid, end,
        [open_set |-> {<<0, start>>},
         g_score |-> [n \in (0..(Len(grid) - 1)) \X (0..(Len(grid[1]) - 1)) |->
                         IF n = start THEN 1 ELSE -1]])

\* a_star(grid, start, end): the path length, or -1 if there is no path.
a_star(grid, start, end) ==
    a_star_loop(grid, end,
        [open_set |-> {<<0, start>>},
         g_score |-> [n \in (0..(Len(grid) - 1)) \X (0..(Len(grid[1]) - 1)) |->
                         IF n = start THEN 0 ELSE -1]])

\* f"{task_id:04d}"
format_04d(n) == zeros(Max(0, 4 - Len(nat_digits(n)))) \o nat_digits(n)

\* f"{CODE}_{difficulty}_{task_id:04d}" with the sequence number counted
\* from zero.
format_task_id_zero_based(code, difficulty, task_id) ==
    <<code, difficulty, format_04d(task_id - 1)>>

\* f"{CODE}_{difficulty}_{task_id:04d}", kept as its three parts.
format_task_id(code, difficulty, task_id) == <<code, difficulty, format_04d(task_id)>>

\* The dict a generator returns. ground_truth holds the path length of a
\* pathfinding task; the other ground truths are functions of params.
make_task(code, category, difficulty, task_id, params, ground_truth) ==
    [task_id |-> format_task_id(code, difficulty, task_id),
     category |-> category,
     difficulty |-> difficulty,
     params |-> params,
     ground_truth |-> ground_truth]

\* A generator whose branch draws the given ranges.
generate(code, category, difficulty, task_id, ranges, x) ==
    LET r == draw_all(x, ranges)
    IN  [task |-> make_task(code, category, difficulty, task_id, r.values, <<>>),
         random_state |-> r.random_state]

Pick(difficulty, easy, medium, hard) ==
    IF difficulty = "easy" THEN easy ELSE IF difficulty = "medium" THEN medium ELSE hard

generate_coordinate_understanding(difficulty, task_id, x) ==
    generate("CU", "coordinate_understanding", difficulty, task_id,
        Pick(difficulty,
            <<<<-10, 10>>, <<-10, 10>>>>,
            <<<<-10, 10>>, <<-10, 10>>, <<-5, 5>>, <<-5, 5>>>>,
            <<<<1, 10>>, <<1, 10>>, <<0, 2>>>>), x)

generate_geometric_reasoning(difficulty, task_id, x) ==
    generate("GR", "geometric_reasoning", difficulty, task_id,
        Pick(difficulty,
            <<<<2, 20>>, <<2, 20>>>>,
            <<<<0, 5>>, <<0, 5>>, <<6, 10>>, <<6, 10>>, <<0, 1>>>>,
            <<<<0, 10>>, <<0, 10>>, <<0, 10>>, <<0, 10>>, <<0, 10>>, <<0, 10>>>>), x)

generate_distance_computation(difficulty, task_id, x) ==
    generate("DC", "distance_computation", difficulty, task_id,
        Pick(difficulty,
            <<<<0, 10>>, <<0, 10>>, <<0, 10>>, <<0, 10>>>>,
            <<<<0, 3>>, <<0, 10>>, <<0, 10>>>>,
            <<<<0, 20>>, <<0, 20>>, <<4, 6>>>>), x)

generate_topological_reasoning(difficulty, task_id, x) ==
    generate("TR", "topological_reasoning", difficulty, task_id,
        Pick(difficulty,
            <<<<0, 4>>>>,
            <<<<2, 4>>>>,
            <<<<0, 7>>>>), x)

\* The obstacle loop drawing from the whole grid, border included.
RECURSIVE draw_obstacles_anywhere(_, _, _, _, _)
draw_obstacles_anywhere(x, obstacles, drawn, num_obstacles, grid_size) ==
    IF Cardinality(obstacles) >= num_obstacles
    THEN [random_state |-> x, obstacles |-> obstacles, drawn |-> drawn]
    ELSE LET ox == randint(x, 0, grid_size - 1)
             oy == randint(advance(x), 0, grid_size - 1)
         IN  draw_obstacles_anywhere(advance(advance(x)), obstacles \cup {<<ox, oy>>},
                                     drawn \o <<ox, oy>>, num_obstacles, grid_size)

\* The while loop that draws obstacle cells until num_obstacles differ.
RECURSIVE draw_obstacles(_, _, _, _, _)
draw_obstacles(x, obstacles, drawn, num_obstacles, grid_size) ==
    IF Cardinality(obstacles) >= num_obstacles
    THEN [random_state |-> x, obstacles |-> obstacles, drawn |-> drawn]
    ELSE LET ox == randint(x, 1, grid_size - 2)
             oy == randint(advance(x), 1, grid_size - 2)
         IN  draw_obstacles(advance(advance(x)), obstacles \cup {<<ox, oy>>},
                            drawn \o <<ox, oy>>, num_obstacles, grid_size)

\* The grid with every obstacle entered one row and one column further on.
grid_of_one_based(grid_size, obstacles) ==
    [r \in 1..grid_size |->
        [c \in 1..grid_size |-> IF <<r - 2, c - 2>> \in obstacles THEN 1 ELSE 0]]

\* grid[ox][oy] = 1 for every obstacle, 0 elsewhere.
grid_of(grid_size, obstacles) ==
    [r \in 1..grid_size |->
        [c \in 1..grid_size |-> IF <<r - 1, c - 1>> \in obstacles THEN 1 ELSE 0]]

\* attempts counts the calls made for the one task: 1, and one more for
\* every regeneration.
RECURSIVE generate_navigation_pathfinding(_, _, _)
generate_navigation_pathfinding(difficulty, task_id, x) ==
    IF difficulty = "easy"
    THEN LET r == draw_all(x, <<<<2, 4>>, <<2, 4>>>>)
             path_length == manhattan_distance(<<0, 0>>, r.values)
         IN  [task |-> make_task("NP", "navigation_pathfinding", difficulty, task_id,
                                 r.values, <<path_length>>),
              random_state |-> r.random_state,
              attempts |-> 1]
    ELSE LET grid_size == IF difficulty = "medium" THEN 6 ELSE 8
             num_obstacles == IF difficulty = "medium" THEN randint(x, 3, 6)
                              ELSE randint(x, 8, 12)
             o == draw_obstacles(advance(x), {}, <<num_obstacles>>, num_obstacles,
                                 grid_size)
             path_length == a_star(grid_of(grid_size, o.obstacles), <<0, 0>>,
                                   <<grid_size - 1, grid_size - 1>>)
         IN  IF difficulty = "medium" /\ path_length = -1
             THEN LET again == generate_navigation_pathfinding(difficulty, task_id,
                                                               o.random_state)
                  IN  [again EXCEPT !.attempts = again.attempts + 1]
             ELSE [task |-> make_task("NP", "navigation_pathfinding", difficulty,
                                      task_id, o.drawn, <<path_length>>),
                   random_state |-> o.random_state,
                   attempts |-> 1]

generate_viewpoint_visibility(difficulty, task_id, x) ==
    generate("VVA", "viewpoint_visibility", difficulty, task_id,
        Pick(difficulty,
            <<<<5, 10>>, <<5, 10>>>>,
            <<<<0, 1>>>>,
            <<<<2, 3>>, <<2, 12>>, <<2, 12>>, <<2, 4>>, <<2, 4>>>>), x)

generate_pattern_recognition(difficulty, task_id, x) ==
    generate("PRA", "pattern_recognition", difficulty, task_id,
        Pick(difficulty,
            [k \in 1..20 |-> <<-10, 10>>],
            <<<<4, 6>>>>,
            <<<<0, 1>>>>), x)

generate_network_infrastructure(difficulty, task_id, x) ==
    generate("NI", "network_infrastructure", difficulty, task_id,
        Pick(difficulty, <<>>, <<<<0, 6>>>>, <<>>), x)

generate_constraint_based_placement(difficulty, task_id, x) ==
    generate("CBP", "constraint_based_placement", difficulty, task_id,
        Pick(difficulty,
            <<<<0, 10>>, <<0, 10>>>>,
            <<<<2, 8>>, <<2, 8>>, <<2, 8>>, <<2, 8>>>>,
            [k \in 1..6 |-> <<2, 18>>]), x)

generate_resource_allocation(difficulty, task_id, x) ==
    generate("RAO", "resource_allocation", difficulty, task_id,
        Pick(difficulty,
            <<<<0, 10>>, <<0, 10>>>>,
            <<<<0, 10>>, <<0, 10>>>>,
            <<>>), x)

generate_temporal_spatial_reasoning(difficulty, task_id, x) ==
    generate("TSR", "temporal_spatial_reasoning", difficulty, task_id,
        Pick(difficulty,
            <<<<1, 5>>, <<1, 5>>, <<1, 5>>>>,
            <<<<0, 5>>, <<0, 5>>, <<1, 3>>, <<0, 2>>, <<8, 15>>, <<3, 10>>,
              <<-3, 0>>, <<-1, 1>>>>,
            <<<<10, 20>>, <<10, 20>>, <<2, 5>>>>), x)

generate_real_estate_geospatial(difficulty, task_id, x) ==
    generate("RE", "real_estate_geospatial", difficulty, task_id,
        Pick(difficulty,
            <<<<-2, 12>>, <<-2, 12>>>>,
            <<<<0, 20>>, <<0, 20>>>>,
            <<<<5, 15>>, <<5, 15>>>>), x)

\* GENERATORS[category](difficulty, task_id), in random state x.
GENERATORS(category, difficulty, task_id, x) ==
    CASE category = "coordinate_understanding" ->
            generate_coordinate_understanding(difficulty, task_id, x)
      [] category = "geometric_reasoning" ->
            generate_geometric_reasoning(difficulty, task_id, x)
      [] category = "distance_computation" ->
            generate_distance_computation(difficulty, task_id, x)
      [] category = "topological_reasoning" ->
            generate_topological_reasoning(difficulty, task_id, x)
      [] category = "navigation_pathfinding" ->
            generate_navigation_pathfinding(difficulty, task_id, x)
      [] category = "viewpoint_visibility" ->
            generate_viewpoint_visibility(difficulty, task_id, x)
      [] category = "pattern_recognition" ->
            generate_pattern_recognition(difficulty, task_id, x)
      [] category = "network_infrastructure" ->
            generate_network_infrastructure(difficulty, task_id, x)
      [] category = "constraint_based_placement" ->
            generate_constraint_based_placement(difficulty, task_id, x)
      [] category = "resource_allocation" ->
            generate_resource_allocation(difficulty, task_id, x)
      [] category = "temporal_spatial_reasoning" ->
            generate_temporal_spatial_reasoning(difficulty, task_id, x)
      [] category = "real_estate_geospatial" ->
            generate_real_estate_geospatial(difficulty, task_id, x)

\* summary["categories"][category] at the head of the category loop.
NoCounts == [easy |-> 0, medium |-> 0, hard |-> 0, total |-> 0]

\* The summary update that leaves the category total alone.
summary_add_no_total(s, category, difficulty, n) ==
    LET e == dict_get(s.categories, category)
    IN  [s EXCEPT !.categories = dict_set(s.categories, category,
                                          [e EXCEPT ![difficulty] = n])]

\* summary["categories"][category][difficulty] = len(tasks)
\* summary["categories"][category]["total"] += len(tasks)
summary_add(s, category, difficulty, n) ==
    LET e == dict_get(s.categories, category)
    IN  [s EXCEPT !.categories = dict_set(s.categories, category,
                                          [e EXCEPT ![difficulty] = n,
                                                    !["total"] = e["total"] + n])]

GenerateAllTasksCall == [fn |-> "generate_all_tasks"]

InitGen ==
    /\ HarnessIdle
    /\ GeneratorIdle
    /\ inp = GenerateAllTasksCall
    /\ out = NotCalled

\* A new Python process imports the module: random.seed(42) runs.
Import ==
    /\ gpc \in {"unloaded", "returned"}
    /\ Len(generated) < MaxInvocations
    /\ process' = process + 1
    /\ random_state' = seed(42)
    /\ gpc' = "imported"
    /\ UNCHANGED <<loop, tasks, summary, total_tasks, base_dir, generated, inp, out,
                   harnessVars>>

\* generate_all_tasks() is entered, in a fresh process or again in the
\* process that ran it before.
Invoke ==
    /\ gpc \in {"imported", "returned"}
    /\ Len(generated) < MaxInvocations
    /\ total_tasks' = 0
    /\ summary' = [categories |-> <<>>, total_tasks |-> 0]
    /\ loop' = [c |-> 1, d |-> 0, i |-> 0]
    /\ tasks' = <<>>
    /\ gpc' = "categories"
    /\ UNCHANGED <<process, random_state, base_dir, generated, inp, out, harnessVars>>

\* for category in CATEGORIES: the head of the loop body.
EnterCategory ==
    /\ gpc = "categories"
    /\ loop.c <= Len(GeneratorCategories)
    /\ summary' = [summary EXCEPT !.categories =
                      dict_set(summary.categories, GeneratorCategories[loop.c], NoCounts)]
    /\ loop' = [loop EXCEPT !.d = 1, !.i = 0]
    /\ tasks' = <<>>
    /\ gpc' = "tasks"
    /\ UNCHANGED <<process, random_state, total_tasks, base_dir, generated, inp, out,
                   harnessVars>>

\* task = generator(difficulty, i + 1); tasks.append(task)
GenerateTask ==
    /\ gpc = "tasks"
    /\ loop.i < TASKS_PER_DIFFICULTY
    /\ LET r == GENERATORS(GeneratorCategories[loop.c], GeneratorDifficulties[loop.d],
                           loop.i + 1, random_state)
       IN  /\ tasks' = Append(tasks, r.task)
           /\ random_state' = r.random_state
    /\ loop' = [loop EXCEPT !.i = loop.i + 1]
    /\ UNCHANGED <<process, gpc, summary, total_tasks, base_dir, generated, inp, out,
                   harnessVars>>

\* The inner loop is over: tasks.json is written, the summary and the total
\* are updated, and the next difficulty or the next category follows.
SaveTasks ==
    /\ gpc = "tasks"
    /\ loop.i = TASKS_PER_DIFFICULTY
    /\ LET category == GeneratorCategories[loop.c]
           difficulty == GeneratorDifficulties[loop.d]
       IN  /\ base_dir' = dict_set(base_dir, <<category, difficulty>>, tasks)
           /\ summary' = summary_add(summary, category, difficulty, Len(tasks))
    /\ total_tasks' = total_tasks + Len(tasks)
    /\ IF loop.d < Len(GeneratorDifficulties)
       THEN /\ loop' = [loop EXCEPT !.d = loop.d + 1, !.i = 0]
            /\ tasks' = <<>>
            /\ gpc' = "tasks"
       ELSE /\ loop' = [c |-> loop.c + 1, d |-> 0, i |-> 0]
            /\ tasks' = tasks
            /\ gpc' = "categories"
    /\ UNCHANGED <<process, random_state, generated, inp, out, harnessVars>>

\* summary["total_tasks"] = total_tasks; return summary
Return ==
    /\ gpc = "categories"
    /\ loop.c > Len(GeneratorCategories)
    /\ summary' = [summary EXCEPT !.total_tasks = total_tasks]
    /\ gpc' = "returned"
    /\ generated' = Append(generated, [process |-> process, dataset |-> base_dir,
                                        summary |-> summary'])
    /\ UNCHANGED <<process, random_state, loop, tasks, total_tasks, base_dir, inp, out,
                   harnessVars>>

NextGen == Import \/ Invoke \/ EnterCategory \/ GenerateTask \/ SaveTasks \/ Return

SpecGen == InitGen /\ [][NextGen]_vars

-----------------------------------------------------------------------------
(* SpecAStar: a_star applied to one drawn grid, start and end. *)

\* Longest side of a drawn grid.
MaxSide == 3
\* Most blocked cells of a drawn grid.
MaxBlocked == 2

CellsOf(rows, cols) == (0..(rows - 1)) \X (0..(cols - 1))

\* [[0] * cols for _ in range(rows)] with grid[x][y] = 1 for the blocked cells.
GridOf(rows, cols, blocked) ==
    [r \in 1..rows |-> [c \in 1..cols |-> IF <<r - 1, c - 1>> \in blocked THEN 1 ELSE 0]]

AStarCall(grid, start, end) == [fn |-> "a_star", grid |-> grid, start |-> start, end |-> end]

InitAStar ==
    /\ HarnessIdle
    /\ GeneratorIdle
    /\ \E rows \in 1..MaxSide, cols \in 1..MaxSide :
          \E blocked \in {b \in SUBSET CellsOf(rows, cols) : Cardinality(b) <= MaxBlocked} :
             \E start \in CellsOf(rows, cols) \ blocked, end \in CellsOf(rows, cols) \ blocked :
                inp = AStarCall(GridOf(rows, cols, blocked), start, end)
    /\ out = NotCalled

RunAStar ==
    /\ inp.fn = "a_star"
    /\ out.exc = "pending"
    /\ out' = Returned(a_star(inp.grid, inp.start, inp.end))
    /\ UNCHANGED <<inp, harnessVars, genVars>>

NextAStar == RunAStar

SpecAStar == InitAStar /\ [][NextAStar]_vars

-----------------------------------------------------------------------------
(* SpecNav: generate_navigation_pathfinding called in one drawn random     *)
(* state, and a_star on every grid its medium branch can build.            *)

\* Largest random state the pathfinding generator is called in.
MaxRandomState == 999

\* The cells an obstacle is drawn from: randint(1, grid_size - 2) twice.
Interior(grid_size) == (1..(grid_size - 2)) \X (1..(grid_size - 2))

NavCall(difficulty, task_id, x) ==
    [fn |-> "generate_navigation_pathfinding", difficulty |-> difficulty,
     task_id |-> task_id, x |-> x]

InitNav ==
    /\ HarnessIdle
    /\ GeneratorIdle
    /\ \/ \E difficulty \in Elems(GeneratorDifficulties), x \in 0..MaxRandomState :
             inp = NavCall(difficulty, 1, x)
       \/ \E obstacles \in {b \in SUBSET Interior(6) : Cardinality(b) \in 3..6} :
             inp = AStarCall(grid_of(6, obstacles), <<0, 0>>, <<5, 5>>)
    /\ out = NotCalled

RunNav ==
    /\ inp.fn = "generate_navigation_pathfinding"
    /\ out.exc = "pending"
    /\ out' = Returned(generate_navigation_pathfinding(inp.difficulty, inp.task_id, inp.x))
    /\ UNCHANGED <<inp, harnessVars, genVars>>

NextNav == RunNav \/ RunAStar

SpecNav == InitNav /\ [][NextNav]_vars

-----------------------------------------------------------------------------
(* bfs_connected, and SpecBfs: bfs_connected applied to one drawn graph.   *)

\* graph.get(node, [])
graph_get(graph, node) == IF node \in DOMAIN graph THEN graph[node] ELSE <<>>

\* for neighbor in ...: if neighbor not in visited: queue.append(neighbor)
RECURSIVE append_unvisited(_, _, _)
append_unvisited(queue, neighbors, visited) ==
    IF neighbors = <<>> THEN queue
    ELSE append_unvisited(IF Head(neighbors) \in visited THEN queue
                          ELSE Append(queue, Head(neighbors)),
                          Tail(neighbors), visited)

\* while queue: ...
RECURSIVE bfs_loop(_, _, _, _)
bfs_loop(graph, end, queue, visited) ==
    IF queue = <<>> THEN FALSE
    ELSE LET node == Head(queue)
         IN  IF node = end THEN TRUE
             ELSE IF node \in visited THEN bfs_loop(graph, end, Tail(queue), visited)
             ELSE bfs_loop(graph, end,
                           append_unvisited(Tail(queue), graph_get(graph, node),
                                            visited \cup {node}),
                           visited \cup {node})

\* bfs_connected that looks no further than the neighbours of start.
bfs_connected_one_hop(graph, start, end) ==
    start = end \/ end \in Elems(graph_get(graph, start))

bfs_connected(graph, start, end) ==
    IF start = end THEN TRUE ELSE bfs_loop(graph, end, <<start>>, {})

\* Most nodes of a drawn graph.
MaxNodes == 3
\* Most adjacency entries of a drawn graph.
MaxEdges == 4

\* The elements of a set of numbers as a list, in increasing order.
RECURSIVE sorted_list(_)
sorted_list(S) ==
    IF S = {} THEN <<>>
    ELSE LET m == CHOOSE v \in S : \A w \in S : v <= w
         IN  <<m>> \o sorted_list(S \ {m})

\* {i: [] for i in range(num_nodes)}, then graph[a].append(b) for every
\* entry (a, b).
GraphOf(num_nodes, entries) ==
    [a \in 0..(num_nodes - 1) |-> sorted_list({b \in 0..(num_nodes - 1) : <<a, b>> \in entries})]

BfsCall(graph, start, end) ==
    [fn |-> "bfs_connected", graph |-> graph, start |-> start, end |-> end]

InitBfs ==
    /\ HarnessIdle
    /\ GeneratorIdle
    /\ \E num_nodes \in 1..MaxNodes :
          \E entries \in {e \in SUBSET ((0..(num_nodes - 1)) \X (0..(num_nodes - 1))) :
                             Cardinality(e) <= MaxEdges} :
             \E start \in 0..num_nodes, end \in 0..num_nodes :
                inp = BfsCall(GraphOf(num_nodes, entries), start, end)
    /\ out = NotCalled

RunBfs ==
    /\ inp.fn = "bfs_connected"
    /\ out.exc = "pending"
    /\ out' = Returned(bfs_connected(inp.graph, inp.start, inp.end))
    /\ UNCHANGED <<inp, harnessVars, genVars>>

NextBfs == RunBfs

SpecBfs == InitBfs /\ [][NextBfs]_vars

-----------------------------------------------------------------------------
(* line_intersects_rectangle (generate_dataset_v2.py) *)

\* Points are <<x, y>>, rectangles <<x_min, y_min, x_max, y_max>>.
point_in_rectangle(point, rect) ==
    /\ rect[1] <= point[1] /\ point[1] <= rect[3]
    /\ rect[2] <= point[2] /\ point[2] <= rect[4]

ccw(A, B, C) == (C[2] - A[2]) * (B[1] - A[1]) > (B[2] - A[2]) * (C[1] - A[1])

intersect(A, B, C, D) ==
    /\ ccw(A, C, D) # ccw(B, C, D)
    /\ ccw(A, B, C) # ccw(A, B, D)

corners(rect) ==
    << <<rect[1], rect[2]>>, <<rect[3], rect[2]>>,
       <<rect[3], rect[4]>>, <<rect[1], rect[4]>> >>

\* edges[i] = (corners[i], corners[(i+1)%4]), positions counted from 1.
edges(rect) == [i \in 1..4 |-> <<corners(rect)[i], corners(rect)[(i % 4) + 1]>>]

line_intersects_rectangle(p1, p2, rect) ==
    \/ \E i \in 1..4 : intersect(p1, p2, edges(rect)[i][1], edges(rect)[i][2])
    \/ point_in_rectangle(p1, rect) /\ point_in_rectangle(p2, rect)

\* Coordinates of the general inputs lie in 0..MaxCoord.
MaxCoord == 3

\* The line of sight and the obstacles of a hard viewpoint task.
observer == <<0, 0>>

target == <<15, 15>>

obstacle(x1, y1, w, h) == <<x1, y1, x1 + w, y1 + h>>

LineCall(p1, p2, rect) ==
    [fn |-> "line_intersects_rectangle", p1 |-> p1, p2 |-> p2, rect |-> rect]

InitLine ==
    /\ HarnessIdle
    /\ GeneratorIdle
    /\ \/ \E p1, p2 \in (0..MaxCoord) \X (0..MaxCoord) :
             \E x_min, y_min, x_max, y_max \in 0..MaxCoord :
                /\ x_min < x_max
                /\ y_min < y_max
                /\ inp = LineCall(p1, p2, <<x_min, y_min, x_max, y_max>>)
       \/ \E x1, y1 \in 2..12 : \E w, h \in 2..4 :
             \E swap \in BOOLEAN :
                inp = LineCall(IF swap THEN target ELSE observer,
                               IF swap THEN observer ELSE target,
                               obstacle(x1, y1, w, h))
    /\ out = NotCalled

RunLine ==
    /\ inp.fn = "line_intersects_rectangle"
    /\ out.exc = "pending"
    /\ out' = Returned(line_intersects_rectangle(inp.p1, inp.p2, inp.rect))
    /\ UNCHANGED <<inp, harnessVars, genVars>>

NextLine == RunLine

SpecLine == InitLine /\ [][NextLine]_vars

-----------------------------------------------------------------------------
(* generate_pattern_recognition, hard branch (generate_dataset_v2.py) *)

\* Coordinates of the four points of the second branch lie in 0..MaxPoint
\* (0..20 in the source).
MaxPoint == 2

cross(p1, p2, p3) == (p2[1] - p1[1]) * (p3[2] - p1[2]) - (p2[2] - p1[2]) * (p3[1] - p1[1])

\* points = [(x_start + i*dx, y_start + i*dy) for i in range(num_points)]
collinear_points(x_start, y_start, dx, dy, num_points) ==
    [i \in 1..num_points |-> <<x_start + (i - 1) * dx, y_start + (i - 1) * dy>>]

\* The loop over points[2:] against the line of points[0] and points[1].
check_collinearity(points) ==
    IF Len(points) >= 3
    THEN \A k \in 3..Len(points) : cross(points[1], points[2], points[k]) = 0
    ELSE TRUE

\* The hard task: below_half is random.random() < 0.5, draws the values of
\* the randint calls of the branch taken, in order.
generate_pattern_recognition_hard(below_half, draws) ==
    LET points == IF below_half
                  THEN collinear_points(draws[1], draws[2], draws[3], draws[4], draws[5])
                  ELSE [i \in 1..4 |-> <<draws[2 * i - 1], draws[2 * i]>>]
        collinear == IF below_half THEN TRUE ELSE check_collinearity(points)
    IN  [category |-> "pattern_recognition",
         difficulty |-> "hard",
         points |-> points,
         ground_truth |-> IF collinear THEN "Yes" ELSE "No"]

PatternCall(below_half, draws) ==
    [fn |-> "generate_pattern_recognition", below_half |-> below_half, draws |-> draws]

InitPattern ==
    /\ HarnessIdle
    /\ GeneratorIdle
    /\ \/ \E x_start, y_start \in 0..5 : \E dx, dy \in 1..3 : \E num_points \in 3..5 :
             inp = PatternCall(TRUE, <<x_start, y_start, dx, dy, num_points>>)
       \/ \E draws \in [1..8 -> 0..MaxPoint] :
             inp = PatternCall(FALSE, draws)
    /\ out = NotCalled

RunPattern ==
    /\ inp.fn = "generate_pattern_recognition"
    /\ out.exc = "pending"
    /\ out' = Returned(generate_pattern_recognition_hard(inp.below_half, inp.draws))
    /\ UNCHANGED <<inp, harnessVars, genVars>>

NextPattern == RunPattern

SpecPattern == InitPattern /\ [][NextPattern]_vars

-----------------------------------------------------------------------------
(* generate_real_estate_tasks, zoning compliance (generate_dataset.py) *)

\* max_coverage is a float of random.uniform(0.3, 0.6); the model holds it in
\* thousandths.  f"{max_coverage:.0%}" prints the nearest whole percent; the
\* values half way between two percents, which Python rounds by the binary
\* value of the float, are not among the inputs.
format_percent(max_coverage) == (max_coverage + 5) \div 10

\* One task of the hard loop, from the values its draws produced.
zoning_compliance_task(lot_size, setback_front, setback_side, max_coverage, proposed_building) ==
    LET building_area == proposed_building.width * proposed_building.length
        \* coverage = building_area / lot_size; coverage <= max_coverage
        compliant ==
            /\ proposed_building.front_setback >= setback_front
            /\ proposed_building.side_setback >= setback_side
            /\ building_area * 1000 <= max_coverage * lot_size
    IN  [category |-> "real_estate",
         difficulty |-> "hard",
         task_type |-> "zoning_compliance",
         question |-> [lot_size |-> lot_size,
                       front_setback |-> setback_front,
                       side_setback |-> setback_side,
                       max_coverage_percent |-> format_percent(max_coverage),
                       proposed_building |-> proposed_building],
         lot_size |-> lot_size,
         zoning |-> [front_setback |-> setback_front,
                     side_setback |-> setback_side,
                     max_coverage |-> max_coverage],
         proposed_building |-> proposed_building,
         answer |-> compliant]

\* Lot sizes of the inputs are 5000 + 2500 * k for k in 0..MaxLotSteps.
MaxLotSteps == 2

ZoningCall(lot_size, setback_front, setback_side, max_coverage, proposed_building) ==
    [fn |-> "generate_real_estate_tasks",
     lot_size |-> lot_size,
     setback_front |-> setback_front,
     setback_side |-> setback_side,
     max_coverage |-> max_coverage,
     proposed_building |-> proposed_building]

InitZoning ==
    /\ HarnessIdle
    /\ GeneratorIdle
    /\ \E k \in 0..MaxLotSteps :
          \E setback_front \in {20, 40}, setback_side \in {5},
             max_coverage \in {m \in 300..600 : m % 10 # 5},
             width \in {30, 80}, length \in {40, 70, 100},
             front_setback \in {15, 40}, side_setback \in {3, 20} :
             /\ 5000 + 2500 * k <= 20000
             /\ inp = ZoningCall(5000 + 2500 * k, setback_front, setback_side, max_coverage,
                                 [width |-> width, length |-> length,
                                  front_setback |-> front_setback,
                                  side_setback |-> side_setback])
    /\ out = NotCalled

RunZoning ==
    /\ inp.fn = "generate_real_estate_tasks"
    /\ out.exc = "pending"
    /\ out' = Returned(zoning_compliance_task(inp.lot_size, inp.setback_front,
                           inp.setback_side, inp.max_coverage, inp.proposed_building))
    /\ UNCHANGED <<inp, harnessVars, genVars>>

NextZoning == RunZoning

SpecZoning == InitZoning /\ [][NextZoning]_vars

-----------------------------------------------------------------------------
(* Claims about the harness (Spec) *)

ModelFailed == exc = "ModelError"

\* C1: a model call that fails does not abort the run: the failed task is
\* recorded as a zero-accuracy result, the remaining tasks are still
\* evaluated, and num_tasks of the report equals the number of tasks selected.
C1_ModelFailureDoesNotAbort ==
    ModelFailed =>
        /\ pc \in {"running", "aggregated"}
        /\ Len(results) = Len(calls)
        /\ results[Len(results)].accuracy = 0
        /\ (pc = "aggregated" =>
                report.kind = "scores" /\ report.num_tasks = Len(all_tasks))

\* Where a result's task sits in the loaded dataset: the index of its category
\* among the dataset's keys, of its difficulty among that category's keys, and
\* of its task_id in that file.
RankOf(r) ==
    LET ci == IndexOf(dict_keys(dataset), r.category)
        cd == dataset[ci].value
        di == IndexOf(dict_keys(cd), r.difficulty)
        ts == cd[di].value
    IN  <<ci, di, CHOOSE k \in 1..Len(ts) : ts[k].task_id = r.task_id>>

Stored(r) ==
    /\ r.category \in Elems(dict_keys(dataset))
    /\ r.difficulty \in Elems(dict_keys(dict_get(dataset, r.category)))
    /\ \E k \in 1..Len(dict_get(dict_get(dataset, r.category), r.difficulty)) :
          LET t == dict_get(dict_get(dataset, r.category), r.difficulty)[k]
          IN  t.task_id = r.task_id /\ t.prompt = r.prompt

LexLess(a, b) ==
    \/ a[1] < b[1]
    \/ a[1] = b[1] /\ a[2] < b[2]
    \/ a[1] = b[1] /\ a[2] = b[2] /\ a[3] < b[3]

\* C2: in a run where no model call fails, model_fn is invoked once per
\* selected task in the order category (as loaded), difficulty, position; one
\* result is appended per task in that order, carrying the task_id, category
\* and difficulty of the task whose prompt was sent; aggregation starts only
\* after the last selected task was scored.
C2_OrderedOncePerTask ==
    (pc \in {"running", "aggregated"} /\ ~ModelFailed) =>
        /\ Len(calls) = Len(results)
        /\ \A i \in 1..Len(results) :
              /\ results[i].prompt = calls[i]
              /\ Stored(results[i])
        /\ \A i, j \in 1..Len(results) :
              i < j => LexLess(RankOf(results[i]), RankOf(results[j]))
        /\ pc = "aggregated" =>
              /\ Len(results) = Len(all_tasks)
              /\ ~inp.max_tasks.given => Len(results) = get_task_count(dataset)
              /\ report.kind = "scores" => report.num_tasks = Len(all_tasks)

C2_Witness ==
    /\ pc = "aggregated"
    /\ inp.categories.given
    /\ inp.difficulties.given
    /\ Len(results) = 3 * MaxPerFile
    /\ results[1].category = "navigation_pathfinding"
    /\ results[Len(results)].difficulty = "easy"

-----------------------------------------------------------------------------
(* Claims about load_dataset (SpecLoad, SpecConfig) *)

LoadReturned == inp.fn \in {"load_dataset", "load_dataset_v1"} /\ out.exc # "pending"

\* The CATEGORIES of the package whose load_dataset was called.
KnownCategories ==
    IF inp.fn = "load_dataset_v1" THEN Elems(CATEGORIES_V1) ELSE Elems(CATEGORIES)

UnknownCategoryGiven ==
    inp.categories.given /\ \E c \in Elems(inp.categories.v) : c \notin KnownCategories

UnknownDifficultyGiven ==
    inp.difficulties.given
    /\ \E d \in Elems(inp.difficulties.v) : d \notin Elems(DIFFICULTIES)

\* C3 as stated: load_dataset raises 'Unknown category' whenever categories
\* holds a name that is not in CATEGORIES, whatever the other arguments are.
C3_Original ==
    (LoadReturned /\ UnknownCategoryGiven) => out.exc = "ValueError: Unknown category"

\* C3, amended: with tier unset, a categories list holding an unknown name
\* makes load_dataset raise ValueError and return no dataset: 'Unknown
\* category' when the unknown name comes first or every difficulty is valid,
\* 'Unknown difficulty' otherwise; with tier set the categories argument is
\* ignored and 'Unknown category' is never raised.  An Evaluator constructed
\* with such a category is never built and makes no model call.
C3_UnknownCategoryFailsFast ==
    /\ (LoadReturned /\ UnknownCategoryGiven) =>
          IF inp.tier.given
          THEN out.exc # "ValueError: Unknown category"
          ELSE /\ out.val = <<>>
               /\ out.exc =
                    IF inp.categories.v[1] \in KnownCategories /\ UnknownDifficultyGiven
                    THEN "ValueError: Unknown difficulty"
                    ELSE "ValueError: Unknown category"
    /\ (inp.fn = "Evaluator" /\ pc # "idle" /\ UnknownCategoryGiven) =>
          /\ pc = "config_error"
          /\ exc \in {"ValueError: Unknown category", "ValueError: Unknown difficulty"}
          /\ calls = <<>>
          /\ runs = 0

C3_Witness ==
    /\ LoadReturned
    /\ UnknownCategoryGiven
    /\ ~inp.tier.given
    /\ Len(inp.categories.v) = 2
    /\ out.exc = "ValueError: Unknown difficulty"

ValidCategoriesOnly ==
    ~inp.categories.given \/ \A c \in Elems(inp.categories.v) : c \in KnownCategories

\* C4: load_dataset raises 'Unknown difficulty' whenever difficulties holds an
\* unknown name, for the default categories, any non-empty list of valid
\* categories, or an empty list.
C4_UnknownDifficultyFailsFast ==
    (LoadReturned /\ ~inp.tier.given /\ UnknownDifficultyGiven /\ ValidCategoriesOnly)
        => out.exc = "ValueError: Unknown difficulty"

-----------------------------------------------------------------------------
(* Claims about compute_accuracy (SpecAcc) *)

AccReturned == inp.fn = "compute_accuracy" /\ out.exc = "none"

NumericCall == inp.fn = "compute_accuracy" /\ is_numeric(inp.ground_truth)

\* The number-like substrings of the response, as numbers, left to right.
Candidates == LET nums == findall(inp.response)
              IN  [i \in 1..Len(nums) |-> to_float(nums[i])]

\* |c - g| and |g| over the common denominator 10^P.
Scaled(c, g) ==
    LET P == Max(c.p, g.p)
    IN  [diff |-> Abs(c.n * Pow10(P - c.p) - g.n * Pow10(P - g.p)),
         mag |-> Abs(g.n * Pow10(P - g.p)),
         P |-> P]

\* |c - g| < 1e-6
Exact(c, g) ==
    LET sc == Scaled(c, g)
    IN  sc.diff = 0 \/ (sc.P > 6 /\ sc.diff < Pow10(sc.P - 6))

\* |c - g| / |g| < 1 / k, for g # 0
Within(c, g, k) == LET sc == Scaled(c, g) IN sc.mag # 0 /\ k * sc.diff < sc.mag

\* The band a candidate falls in, as the claim states the bands.  No
\* candidate of the responses considered comes near a ground truth of
\* 10^x with x > 0.
Band(c, g) ==
    IF g.x > 0 THEN 0
    ELSE IF Exact(c, g) THEN 1000
    ELSE IF Within(c, g, 100) THEN 900
    ELSE IF Within(c, g, 20) THEN 700
    ELSE 0

InBand == {i \in 1..Len(Candidates) : Band(Candidates[i], inp.ground_truth) # 0}

LastInBand == CHOOSE i \in InBand : \A j \in InBand : j <= i

\* C5: for a numeric ground truth g the candidates are examined from the last
\* to the first and the first one that falls in a band decides: 1.0 when
\* |c-g| < 1e-6, else (g # 0) 0.9 below 1% and 0.7 below 5% relative error;
\* 0.0 is returned when there is no number or none falls in a band, so for
\* g = 0 only 1.0 and 0.0 occur.  For g = 42: 'The answer is 42' -> 1.0,
\* 'approximately 42.3' -> 0.9, '100' -> 0.0, "I don't know" -> 0.0.
C5_NumericBands ==
    /\ (NumericCall /\ out.exc # "pending") =>
          /\ out = Returned(IF InBand = {} THEN 0
                            ELSE Band(Candidates[LastInBand], inp.ground_truth))
          /\ (inp.ground_truth.n = 0 => out.val \in {0, 1000})
    /\ (AccReturned /\ inp = Call(TheAnswerIs42, GInt(42))) => out.val = 1000
    /\ (AccReturned /\ inp = Call(Approximately42_3, GInt(42))) => out.val = 900
    /\ (AccReturned /\ inp = Call(<<"1", "0", "0">>, GInt(42))) => out.val = 0
    /\ (AccReturned /\ inp = Call(IDontKnow, GInt(42))) => out.val = 0

SomeExact == \E i \in 1..Len(Candidates) : Band(Candidates[i], inp.ground_truth) = 1000

LastInBandExact ==
    InBand # {} /\ Band(Candidates[LastInBand], inp.ground_truth) = 1000

\* C6 as stated: if any number-like substring of the response is within 1e-6
\* of g the score is 1.0; 0.9 and 0.7 are returned only when no candidate
\* matches exactly.
C6_Original ==
    (NumericCall /\ AccReturned /\ SomeExact) => out.val = 1000

\* C6, amended: for a numeric ground truth g, if the last number-like
\* substring of the response that falls in any band is within 1e-6 of g,
\* compute_accuracy returns 1.0, and it returns 1.0 in no other case; 0.9 and
\* 0.7 are returned only when that last in-band candidate does not match g
\* exactly, whether or not an earlier candidate does.
C6_LastInBandDecides ==
    /\ (NumericCall /\ out.exc # "pending" /\ LastInBandExact) => out = Returned(1000)
    /\ (NumericCall /\ AccReturned /\ out.val = 1000) => LastInBandExact
    /\ (NumericCall /\ AccReturned /\ out.val \in {900, 700}) =>
          InBand # {} /\ ~LastInBandExact

\* An exact match is present and the score is partial credit.
C6_Witness ==
    /\ NumericCall
    /\ AccReturned
    /\ SomeExact
    /\ out.val \in {700, 900}

\* C7: compute_accuracy(str(g), g) = 1.0 for every numeric ground truth g.
C7_SelfMatch ==
    (NumericCall /\ out.exc # "pending" /\ inp.response = py_str(inp.ground_truth))
        => out = Returned(1000)

\* b occurs in a as a contiguous run.
Occurs(a, b) == \E i \in 0..Len(a), j \in 0..Len(a) : SubSeq(a, i + 1, j) = b

\* The string rule as the claim states it.
StringMatch(response, text) == Occurs(lower(response), strip(lower(text)))

\* C8: for a string ground truth the score is 1.0 exactly when the trimmed,
\* lower-cased ground truth occurs as a contiguous substring of the lower-cased
\* response and 0.0 otherwise; the suffix rule never accepts a response the
\* containment rule rejected.
C8_StringContainment ==
    (AccReturned /\ inp.ground_truth.type = "str") =>
        LET response_lower == strip(lower(inp.response))
            gt_lower == strip(lower(inp.ground_truth.text))
        IN  /\ out.val = IF StringMatch(inp.response, inp.ground_truth.text)
                         THEN 1000 ELSE 0
            /\ endswith(response_lower, gt_lower)
                  => contains(response_lower, gt_lower)

\* Matched through case folding and trimming, away from the end of the response.
C8_Witness ==
    /\ AccReturned
    /\ inp.ground_truth.type = "str"
    /\ out.val = 1000
    /\ strip(inp.ground_truth.text) # inp.ground_truth.text
    /\ ~contains(inp.response, strip(inp.ground_truth.text))
    /\ ~endswith(strip(lower(inp.response)), strip(lower(inp.ground_truth.text)))

ListOfStrings(g) ==
    g.type = "list" /\ \A i \in 1..Len(g.items) : g.items[i].type = "str"

C10_NeverRaises ==
    (inp.fn = "compute_accuracy" /\ out.exc # "pending") =>
        /\ out.exc = "none"
        /\ inp.ground_truth.type \in {"dict", "none"} => out.val = 0

UnrelatedCall ==
    /\ inp.fn = "compute_accuracy"
    /\ inp.response = CompletelyUnrelatedText
    /\ out.exc # "pending"

\* The strings of a string or list-of-strings ground truth.
Texts(g) ==
    IF g.type = "str" THEN {g.text}
    ELSE {g.items[i].text : i \in 1..Len(g.items)}

\* C11 as stated: compute_accuracy("completely unrelated text", g) returns 0.0
\* for any numeric, string or list-of-strings ground truth g.
C11_Original ==
    (UnrelatedCall /\ (is_numeric(inp.ground_truth) \/ inp.ground_truth.type = "str"
                       \/ ListOfStrings(inp.ground_truth)))
        => out = Returned(0)

\* C11, amended: compute_accuracy("completely unrelated text", g) returns 0.0
\* for any numeric g, and for any string or list-of-strings g none of whose
\* strings, trimmed and lower-cased, occurs in the text; it returns 1.0 when
\* one of them does (such as 'text', 'a' or the empty string).
C11_UnrelatedText ==
    /\ (UnrelatedCall /\ is_numeric(inp.ground_truth)) => out = Returned(0)
    /\ (UnrelatedCall /\ (inp.ground_truth.type = "str" \/ ListOfStrings(inp.ground_truth))) =>
          out = Returned(IF \E t \in Texts(inp.ground_truth) :
                                Occurs(CompletelyUnrelatedText, strip(lower(t)))
                         THEN 1000 ELSE 0)

\* A list of acceptable answers none of which occurs in the text.
C11_Witness ==
    /\ UnrelatedCall
    /\ ListOfStrings(inp.ground_truth)
    /\ Len(inp.ground_truth.items) = 3
    /\ out = Returned(0)

-----------------------------------------------------------------------------
(* Claims about the scores of the harness (Spec) *)

AccuracyValues == {0, 700, 900, 1000}

\* Component values between 0.0 and 1.0, in thousandths.
ComponentValues == {0, 1, 300, 499, 500, 550, 999, 1000}

\* C12: every result recorded by the harness has accuracy, reasoning and
\* efficiency within [0,1], accuracy being one of 0.0, 0.7, 0.9 and 1.0, and
\* the composite of any such components with the default weights lies within
\* [0,100].
C12_ScoresInRange ==
    /\ \A i \in 1..Len(results) :
          /\ results[i].accuracy \in AccuracyValues
          /\ results[i].reasoning_score \in 0..1000
          /\ results[i].efficiency_score \in 0..1000
    /\ report.kind = "scores" =>
          /\ report.overall_score \in 0..10000
          /\ \A i \in 1..Len(report.per_category) :
                report.per_category[i].value.score \in 0..10000
    /\ \A a \in AccuracyValues, r \in ComponentValues, e \in ComponentValues :
          compute_spatialeval_score(a, r, e, 1) \in 0..10000

\* A finished run that recorded a right and a wrong answer.
C12_Witness ==
    /\ pc = "aggregated"
    /\ report.kind = "scores"
    /\ \E i, j \in 1..Len(results) :
          results[i].accuracy = 1000 /\ results[j].accuracy = 0

-----------------------------------------------------------------------------
(* Claims about the heuristic scorers and the composite (SpecScore) *)

EfficiencyScored == inp.fn = "compute_efficiency_score" /\ out.exc = "none"

\* The number of words of a text: the places where a word ends.
Words(s) ==
    Cardinality({i \in 1..Len(s) :
                    s[i] \notin Whitespace /\ (i = Len(s) \/ s[i + 1] \in Whitespace)})

\* C13 as stated: for a response of w words, 0 <= w < 50,
\* compute_efficiency_score returns 0.5 + (w/50)*0.5 (10 words -> 0.6).
C13_Original ==
    (EfficiencyScored /\ Words(inp.response) < 50)
        => out.val = 500 + 10 * Words(inp.response)

\* C13, amended: for a response of w words, 0 <= w < 50,
\* compute_efficiency_score returns max(0.5, w/50): the floor 0.5 for every
\* w <= 25, then w/50, rising linearly from 0.5 at 25 words towards 1.0 at 50
\* words (10 words -> 0.5, 40 words -> 0.8).
C13_ShortResponse ==
    (EfficiencyScored /\ Words(inp.response) < 50) =>
        LET w == Words(inp.response)
        IN  /\ out.val = IF w <= 25 THEN 500 ELSE 20 * w
            /\ out.val >= 500
            /\ out.val < 1000

\* Ten words score the floor.
C13_Witness ==
    /\ EfficiencyScored
    /\ Words(inp.response) = 10
    /\ out.val = 500

ReasoningScored == inp.fn = "compute_reasoning_score" /\ out.exc = "none"

\* The distinct lexicon phrases present in a text.
PhrasesIn(s) == {p \in Elems(reasoning_indicators) : Occurs(lower(s), p)}

\* A digit, an operator and a digit, with nothing but whitespace between them.
ArithmeticIn(s) ==
    \E j \in 1..Len(s) :
        /\ s[j] \in OperatorChars
        /\ \E i \in 1..(j - 1) :
              IsDigit(s[i]) /\ \A m \in (i + 1)..(j - 1) : s[m] \in Whitespace
        /\ \E k \in (j + 1)..Len(s) :
              IsDigit(s[k]) /\ \A m \in (j + 1)..(k - 1) : s[m] \in Whitespace

\* answer, result or solution followed by whitespace or a colon.
MarkerIn(s) ==
    \E w \in MarkerWords, c \in Whitespace \cup {":"} : Occurs(lower(s), Append(w, c))

\* A phrase, an arithmetic pattern and a marker to add to a response.
AddedFeatures ==
    {<<" ", "b", "e", "c", "a", "u", "s", "e">>, <<" ", "2", "*", "3">>,
     <<" ", "r", "e", "s", "u", "l", "t", ":">>}

\* C15: compute_reasoning_score equals 0.5 + min(0.05*k, 0.3) + 0.1 for an
\* arithmetic 'digit operator digit' pattern + 0.1 for an answer/result/
\* solution marker, k being the number of distinct phrases of the 16-phrase
\* lexicon present; it lies between 0.5 and 1.0, is 0.5 for a response with
\* none of the features, and never falls when a feature is added.
C15_ReasoningFormula ==
    /\ Cardinality(Elems(reasoning_indicators)) = 16
    /\ ReasoningScored =>
          LET k == Cardinality(PhrasesIn(inp.response))
              capped == IF 50 * k < 300 THEN 50 * k ELSE 300
          IN  /\ out.val = 500 + capped
                               + (IF ArithmeticIn(inp.response) THEN 100 ELSE 0)
                               + (IF MarkerIn(inp.response) THEN 100 ELSE 0)
              /\ out.val \in 500..1000
              /\ (k = 0 /\ ~ArithmeticIn(inp.response) /\ ~MarkerIn(inp.response))
                    => out.val = 500
              /\ \A f \in AddedFeatures :
                    compute_reasoning_score(inp.response \o f) >= out.val

\* More than six phrases and nothing else: the cap holds the score at 0.8.
C15_Witness ==
    /\ ReasoningScored
    /\ Cardinality(PhrasesIn(inp.response)) > 6
    /\ out.val = 800

CompositeScored == inp.fn = "compute_spatialeval_score" /\ out.exc = "none"

DefaultWeights == ~inp.weights.given \/ inp.weights.v = <<5, 3, 2>>

\* 100 * (0.5*accuracy + 0.3*reasoning + 0.2*efficiency) in hundredths of a
\* point, times the denominator of the components.
WeightedSum == 5 * inp.accuracy + 3 * inp.reasoning + 2 * inp.efficiency

UnitComponents(a, r, e) ==
    /\ inp.den = 1
    /\ inp.accuracy = a /\ inp.reasoning = r /\ inp.efficiency = e

CompositeExamples ==
    /\ UnitComponents(1000, 1000, 1000) => out.val = 10000
    /\ UnitComponents(0, 0, 0) => out.val = 0
    /\ UnitComponents(1000, 0, 0) => out.val = 5000
    /\ UnitComponents(0, 1000, 0) => out.val = 3000
    /\ UnitComponents(0, 0, 1000) => out.val = 2000

\* Raising one component by d (over the same denominator) does not lower the
\* score.
CompositeMonotone ==
    \A d \in {1, 100} :
        /\ compute_spatialeval_score(inp.accuracy + d, inp.reasoning, inp.efficiency,
                                     inp.den) >= out.val
        /\ compute_spatialeval_score(inp.accuracy, inp.reasoning + d, inp.efficiency,
                                     inp.den) >= out.val
        /\ compute_spatialeval_score(inp.accuracy, inp.reasoning, inp.efficiency + d,
                                     inp.den) >= out.val

\* C16 as stated: the composite equals 100 * (0.5*accuracy + 0.3*reasoning +
\* 0.2*efficiency) with the default weights, gives 100, 0, 50, 30 and 20 on
\* the unit components and is non-decreasing in each component.
C16_Original ==
    (CompositeScored /\ DefaultWeights) =>
        /\ out.val * inp.den = WeightedSum
        /\ CompositeExamples
        /\ CompositeMonotone

\* C16, amended: the composite equals 100 * (0.5*accuracy + 0.3*reasoning +
\* 0.2*efficiency), rounded to two decimal places, with the default weights:
\* (1,1,1) gives 100.0, (0,0,0) 0.0, (1,0,0) 50.0, (0,1,0) 30.0 and (0,0,1)
\* 20.0, and the score is non-decreasing in each component.
C16_RoundedWeightedSum ==
    (CompositeScored /\ DefaultWeights) =>
        /\ 2 * out.val * inp.den - 2 * WeightedSum \in (0 - inp.den)..inp.den
        /\ CompositeExamples
        /\ CompositeMonotone

\* Mean components over three results whose weighted sum needs rounding.
C16_Witness ==
    /\ CompositeScored
    /\ DefaultWeights
    /\ inp.den = 3
    /\ out.val * inp.den # WeightedSum

\* The weights, in tenths, do not sum to 1.0.
WeightsOffUnit ==
    /\ inp.fn = "compute_spatialeval_score"
    /\ inp.weights.given
    /\ inp.weights.v[1] + inp.weights.v[2] + inp.weights.v[3] # 10

\* C17: a weights triple whose sum is not 1.0 is rejected: the composite
\* operation raises instead of computing a score from it.
C17_WeightsMustSumToOne ==
    (WeightsOffUnit /\ out.exc # "pending") => out.exc # "none"

-----------------------------------------------------------------------------
(* Claims about the dataset generator (SpecGen) *)

\* C18: any two invocations of generate_all_tasks() with the fixed seed
\* produce identical task sequences, for every category and difficulty,
\* whether they run in separate processes or one after the other in the same
\* process.
C18_SameSeedSameTasks ==
    \A m, n \in 1..Len(generated) : generated[m].dataset = generated[n].dataset

\* The tasks ts of the pair (category, difficulty) carry the ids
\* CODE_difficulty_0001, CODE_difficulty_0002, ... in this order.
IdsInSequence(category, difficulty, ts) ==
    /\ \A k \in 1..Len(ts) :
          /\ ts[k].task_id[1] = CATEGORY_CODES(category)
          /\ ts[k].task_id[2] = difficulty
          /\ Len(ts[k].task_id[3]) = 4
          /\ \A c \in 1..4 : IsDigit(ts[k].task_id[3][c])
          /\ digits_value(ts[k].task_id[3]) = k
    /\ \A k1, k2 \in 1..Len(ts) : k1 # k2 => ts[k1].task_id # ts[k2].task_id

\* C19: within each (category, difficulty) pair the emitted task_ids are
\* pairwise distinct and carry the sequence numbers 1, 2, ..., count in
\* emission order, in the format CODE_difficulty_NNNN with CODE the category's
\* code in CATEGORY_CODES; a regenerated instance keeps its sequence number
\* and is emitted once.
C19_TaskIdsInSequence ==
    /\ \A f \in 1..Len(base_dir) :
          IdsInSequence(base_dir[f].key[1], base_dir[f].key[2], base_dir[f].value)
    /\ gpc = "tasks" =>
          /\ Len(tasks) = loop.i
          /\ IdsInSequence(GeneratorCategories[loop.c], GeneratorDifficulties[loop.d],
                           tasks)

\* Every file of the dataset is written, the medium pathfinding file among
\* them, each with more than one task.
C19_Witness ==
    /\ gpc = "returned"
    /\ \E f \in 1..Len(base_dir) :
          /\ base_dir[f].key = <<"navigation_pathfinding", "medium">>
          /\ Len(base_dir[f].value) = TASKS_PER_DIFFICULTY
          /\ Len(base_dir[f].value) > 1

RECURSIVE SumTotals(_)
SumTotals(d) == IF d = <<>> THEN 0 ELSE Head(d).value.total + SumTotals(Tail(d))

\* C20: generate_all_tasks emits exactly TASKS_PER_DIFFICULTY tasks for each
\* of the 12 categories x 3 difficulties, none skipped and none duplicated,
\* and its summary agrees with what was emitted: every per-difficulty count
\* is the number of tasks of that pair, every category total the sum of its
\* three counts, and total_tasks the sum of the category totals.
C20_CountsAndSummary ==
    \A n \in 1..Len(generated) :
        LET written == generated[n].dataset
            counts == generated[n].summary
        IN  /\ Len(GeneratorCategories) = 12 /\ Len(GeneratorDifficulties) = 3
            /\ Len(written) = 36
            /\ \A c \in Elems(GeneratorCategories), d \in Elems(GeneratorDifficulties) :
                  /\ Cardinality({f \in 1..Len(written) : written[f].key = <<c, d>>}) = 1
                  /\ Len(dict_get(written, <<c, d>>)) = TASKS_PER_DIFFICULTY
                  /\ \A t \in Elems(dict_get(written, <<c, d>>)) :
                        t.category = c /\ t.difficulty = d
                  /\ dict_get(counts.categories, c)[d] = Len(dict_get(written, <<c, d>>))
            /\ dict_keys(counts.categories) = GeneratorCategories
            /\ \A e \in Elems(counts.categories) :
                  e.value.total = e.value.easy + e.value.medium + e.value.hard
            /\ counts.total_tasks = SumTotals(counts.categories)
            /\ counts.total_tasks = 36 * TASKS_PER_DIFFICULTY

\* An invocation has returned its summary.
C20_Witness ==
    /\ gpc = "returned"
    /\ summary.total_tasks = 36 * TASKS_PER_DIFFICULTY
    /\ Len(generated) > 0

AStarReturned == inp.fn = "a_star" /\ out.exc = "none"

Free(grid, n) ==
    /\ n[1] \in 0..(Len(grid) - 1)
    /\ n[2] \in 0..(Len(grid[1]) - 1)
    /\ grid[n[1] + 1][n[2] + 1] = 0

\* The free cells one move away from a cell of level.
Step(grid, level) ==
    {n \in CellsOf(Len(grid), Len(grid[1])) :
        /\ Free(grid, n)
        /\ \E m \in level : Abs(n[1] - m[1]) + Abs(n[2] - m[2]) = 1}

\* Breadth-first search: the number of the first level that holds end, -1
\* when the levels run out first.
RECURSIVE BfsDistance(_, _, _, _, _)
BfsDistance(grid, level, seen, end, d) ==
    IF end \in level THEN d
    ELSE LET next == Step(grid, level) \ seen
         IN  IF next = {} THEN -1
             ELSE BfsDistance(grid, next, seen \cup next, end, d + 1)

ObstacleFree(grid) ==
    \A n \in CellsOf(Len(grid), Len(grid[1])) : grid[n[1] + 1][n[2] + 1] = 0

\* C22: on every rectangular 0/1 grid and for every free start and end,
\* a_star returns the number of moves of a shortest 4-directional path
\* through free cells, as breadth-first search gives it (0 when start = end),
\* or -1 when there is none; on an obstacle-free N x N grid from (0,0) to
\* (N-1,N-1) it returns 2(N-1).
C22_AStarShortestPath ==
    AStarReturned =>
        /\ out.val = BfsDistance(inp.grid, {inp.start}, {inp.start}, inp.end, 0)
        /\ inp.start = inp.end => out.val = 0
        /\ ( /\ ObstacleFree(inp.grid)
             /\ Len(inp.grid) = Len(inp.grid[1])
             /\ inp.start = <<0, 0>>
             /\ inp.end = <<Len(inp.grid) - 1, Len(inp.grid) - 1>> )
           => out.val = 2 * (Len(inp.grid) - 1)

\* A path that has to go round an obstacle.
C22_Witness ==
    /\ AStarReturned
    /\ out.val > Abs(inp.start[1] - inp.end[1]) + Abs(inp.start[2] - inp.end[2])

\* No path: the end is cut off.
C22_WitnessNoPath == AStarReturned /\ out.val = -1

-----------------------------------------------------------------------------
(* Claims about the pathfinding generator (SpecNav, SpecAStar) *)

NavReturned == inp.fn = "generate_navigation_pathfinding" /\ out.exc = "none"

GridSize(difficulty) == IF difficulty = "medium" THEN 6 ELSE 8

\* The obstacle coordinates among the numbers a medium or hard task drew:
\* all but the first, which is num_obstacles.
ObstacleCoordinates(params) == {params[k] : k \in 2..Len(params)}

\* C30: in medium and hard pathfinding tasks every obstacle lies in an
\* interior cell, so a path from (0,0) to (grid_size-1, grid_size-1) exists
\* for every obstacle draw: a_star never returns -1, the medium regenerate
\* branch is never taken, and the ground truth is 2*(grid_size-1), 10 for
\* medium and 14 for hard.
C30_InteriorObstacles ==
    /\ (NavReturned /\ inp.difficulty # "easy") =>
          /\ ObstacleCoordinates(out.val.task.params)
                \subseteq 1..(GridSize(inp.difficulty) - 2)
          /\ out.val.random_state =
                draw_obstacles(advance(inp.x), {}, <<out.val.task.params[1]>>,
                               out.val.task.params[1],
                               GridSize(inp.difficulty)).random_state
          /\ out.val.task.ground_truth = <<2 * (GridSize(inp.difficulty) - 1)>>
          /\ out.val.task.ground_truth =
                IF inp.difficulty = "medium" THEN <<10>> ELSE <<14>>
    /\ (AStarReturned /\ inp.start = <<0, 0>> /\ Len(inp.grid) = 6
           /\ inp.end = <<5, 5>>) =>
          out.val = 10

\* Six obstacles, the most a medium grid gets, and the path is still 10.
C30_Witness ==
    /\ AStarReturned
    /\ Len(inp.grid) = 6
    /\ Cardinality({n \in Interior(6) : inp.grid[n[1] + 1][n[2] + 1] = 1}) = 6
    /\ out.val = 10

-----------------------------------------------------------------------------
(* Claims about bfs_connected (SpecBfs) *)

BfsReturned == inp.fn = "bfs_connected" /\ out.exc = "none"

Listed(graph, a, b) == a \in DOMAIN graph /\ b \in Elems(graph[a])

\* The nodes reachable from those of S along adjacency entries.
RECURSIVE Reachable(_, _)
Reachable(graph, S) ==
    LET more == S \cup {b \in 0..MaxNodes : \E a \in S : Listed(graph, a, b)}
    IN  IF more = S THEN S ELSE Reachable(graph, more)

\* b is listed under a iff a is listed under b.
Undirected(graph) ==
    \A a, b \in 0..MaxNodes : Listed(graph, a, b) <=> Listed(graph, b, a)

\* C23: bfs_connected(graph, a, b) is true exactly when b is reachable from a
\* along adjacency entries; so it is true for a = b, and on an undirected
\* adjacency structure it gives the same answer for (a, b) and (b, a).
C23_BfsReachability ==
    BfsReturned =>
        /\ out.val <=> inp.end \in Reachable(inp.graph, {inp.start})
        /\ inp.start = inp.end => out.val
        /\ Undirected(inp.graph) =>
              (out.val <=> bfs_connected(inp.graph, inp.end, inp.start))

\* Connected on an undirected structure through a node in between.
C23_Witness ==
    /\ BfsReturned
    /\ Undirected(inp.graph)
    /\ inp.start # inp.end
    /\ ~Listed(inp.graph, inp.start, inp.end)
    /\ out.val

-----------------------------------------------------------------------------
(* Claims about the report and about repeated and capped runs (Spec) *)

\* The results of one category, by position.
InCategory(category) == {i \in 1..Len(results) : results[i].category = category}

RECURSIVE Total(_, _)
Total(I, field) ==
    IF I = {} THEN 0
    ELSE LET i == CHOOSE k \in I : TRUE
         IN  results[i][field] + Total(I \ {i}, field)

MeansOver(I, r) ==
    /\ r.accuracy = [num |-> Total(I, "accuracy"), den |-> Cardinality(I)]
    /\ r.reasoning = [num |-> Total(I, "reasoning_score"), den |-> Cardinality(I)]
    /\ r.efficiency = [num |-> Total(I, "efficiency_score"), den |-> Cardinality(I)]

CompositeOf(r) ==
    compute_spatialeval_score(r.accuracy.num, r.reasoning.num, r.efficiency.num,
                              r.accuracy.den)

RECURSIVE CountSum(_)
CountSum(pcat) ==
    IF pcat = <<>> THEN 0 ELSE Head(pcat).value.accuracy.den + CountSum(Tail(pcat))

\* C24: the report is computed over exactly the recorded results: num_tasks
\* is their number, the overall accuracy, reasoning and efficiency are their
\* means, per_category has an entry exactly for each loaded category with a
\* result, holding the means over that category's results and the composite
\* of those means, and the per-category counts sum to num_tasks; with no
\* result the harness returns an error record.
C24_ReportOverResults ==
    pc = "aggregated" =>
        /\ report.kind = "error" <=> results = <<>>
        /\ report.kind # "error" => report.kind = "scores"
        /\ report.kind = "scores" =>
              /\ report.num_tasks = Len(results)
              /\ MeansOver(1..Len(results), report)
              /\ report.overall_score = CompositeOf(report)
              /\ {e.key : e \in Elems(report.per_category)} =
                    {c \in Elems(dict_keys(dataset)) : InCategory(c) # {}}
              /\ \A m, n \in 1..Len(report.per_category) :
                    m # n => report.per_category[m].key # report.per_category[n].key
              /\ \A e \in Elems(report.per_category) :
                    /\ MeansOver(InCategory(e.key), e.value)
                    /\ e.value.score = CompositeOf(e.value)
              /\ CountSum(report.per_category) = report.num_tasks

\* A report over results of two categories.
C24_Witness ==
    /\ pc = "aggregated"
    /\ report.kind = "scores"
    /\ Len(report.per_category) = 2
    /\ report.num_tasks > 2

Selected == Len(all_tasks)

Loaded_N == Len(flatten_dataset(dataset))

\* C28: with max_tasks = n the run evaluates a prefix of the task iteration
\* order and never more than n tasks: exactly min(n, N) tasks for n >= 0 and
\* no task for n <= 0, N being the number of loaded tasks.
C28_MaxTasksCap ==
    (pc \in {"running", "aggregated", "aborted"} /\ inp.max_tasks.given) =>
        /\ all_tasks = SubSeq(flatten_dataset(dataset), 1, Selected)
        /\ Len(results) <= Selected
        /\ Selected = IF inp.max_tasks.v >= 0 THEN Min(inp.max_tasks.v, Loaded_N) ELSE 0

\* The same for the caps that are not negative.
C28_NonNegativeCap ==
    (pc \in {"running", "aggregated", "aborted"} /\ inp.max_tasks.given
        /\ inp.max_tasks.v >= 0) =>
        /\ all_tasks = SubSeq(flatten_dataset(dataset), 1, Selected)
        /\ Len(results) <= Selected
        /\ Selected = Min(inp.max_tasks.v, Loaded_N)

\* C29: after any sequence of run() calls results holds exactly the results
\* of the most recent run, in order, nothing of an earlier run among them;
\* the reported num_tasks is the number of tasks that run evaluated; and a
\* run leaves the loaded dataset as the constructor loaded it.
C29_ResultsOfLastRun ==
    pc \in {"running", "aggregated", "aborted"} =>
        /\ Len(results) <= Len(calls)
        /\ Len(calls) <= Selected
        /\ \A k \in 1..Len(results) :
              /\ results[k].task_id = all_tasks[k].task.task_id
              /\ results[k].category = all_tasks[k].category
              /\ results[k].difficulty = all_tasks[k].difficulty
              /\ results[k].prompt = calls[k]
        /\ (pc = "aggregated" /\ report.kind = "scores") =>
              report.num_tasks = Len(results) /\ report.num_tasks = Len(calls)
        /\ dataset = load_dataset(files, inp.categories, inp.difficulties, NoTier).val

\* A second run, capped below the first, has finished.
C29_Witness ==
    /\ runs = 2
    /\ pc = "aggregated"
    /\ report.kind = "scores"
    /\ inp.max_tasks.given
    /\ Len(results) < Loaded_N

-----------------------------------------------------------------------------
(* Claims about line_intersects_rectangle (SpecLine) *)

LineReturned == inp.fn = "line_intersects_rectangle" /\ out.exc = "none"

\* Twice the signed area of the triangle A, B, C.
Cross(A, B, C) == (B[1] - A[1]) * (C[2] - A[2]) - (B[2] - A[2]) * (C[1] - A[1])

Sign(n) == IF n > 0 THEN 1 ELSE IF n < 0 THEN -1 ELSE 0

\* P lies in the bounding box of A and B.
InBox(A, B, P) ==
    /\ Min(A[1], B[1]) <= P[1] /\ P[1] <= Max(A[1], B[1])
    /\ Min(A[2], B[2]) <= P[2] /\ P[2] <= Max(A[2], B[2])

\* The closed segments AB and CD share a point.
SegmentsMeet(A, B, C, D) ==
    \/ /\ Sign(Cross(A, B, C)) # Sign(Cross(A, B, D))
       /\ Sign(Cross(C, D, A)) # Sign(Cross(C, D, B))
    \/ Cross(A, B, C) = 0 /\ InBox(A, B, C)
    \/ Cross(A, B, D) = 0 /\ InBox(A, B, D)
    \/ Cross(C, D, A) = 0 /\ InBox(C, D, A)
    \/ Cross(C, D, B) = 0 /\ InBox(C, D, B)

\* The closed segment p1 p2 and the closed rectangle share a point: an end
\* of the segment lies in the rectangle or the segment meets its boundary.
SharePoint(p1, p2, rect) ==
    \/ point_in_rectangle(p1, rect)
    \/ point_in_rectangle(p2, rect)
    \/ \E i \in 1..4 : SegmentsMeet(p1, p2, edges(rect)[i][1], edges(rect)[i][2])

\* C25: line_intersects_rectangle(p1, p2, rect) is true exactly when the
\* closed segment and the closed rectangle share a point, touching a corner
\* or an edge and lying inside included, and the result is the same with p1
\* and p2 swapped.
C25_BoundaryInclusive ==
    LineReturned =>
        /\ out.val = SharePoint(inp.p1, inp.p2, inp.rect)
        /\ out.val = line_intersects_rectangle(inp.p2, inp.p1, inp.rect)

\* line_intersects_rectangle never reports an intersection where the segment
\* and the rectangle are apart.
C25_NoFalseIntersection ==
    LineReturned => (out.val => SharePoint(inp.p1, inp.p2, inp.rect))

-----------------------------------------------------------------------------
(* Claims about the hard pattern-recognition tasks (SpecPattern) *)

PatternReturned == inp.fn = "generate_pattern_recognition" /\ out.exc = "none"

\* All the points lie on one straight line.
AllCollinear(points) ==
    \A i, j, k \in 1..Len(points) : Cross(points[i], points[j], points[k]) = 0

\* C26: the ground truth of a hard pattern-recognition task is 'Yes' exactly
\* when all the points listed in the prompt are collinear and 'No' otherwise,
\* for every draw of both branches, coinciding points included.
C26_GroundTruthIsCollinearity ==
    PatternReturned =>
        /\ out.val.ground_truth \in {"Yes", "No"}
        /\ out.val.ground_truth = "Yes" <=> AllCollinear(out.val.points)

\* A 'No' is never given to collinear points, and the points of the first
\* branch are collinear and answered 'Yes'.
C26_NoIsRight ==
    PatternReturned =>
        /\ out.val.ground_truth = "No" => ~AllCollinear(out.val.points)
        /\ inp.below_half =>
              out.val.ground_truth = "Yes" /\ AllCollinear(out.val.points)

-----------------------------------------------------------------------------
(* Claims about the zoning-compliance tasks (SpecZoning) *)

ZoningReturned == inp.fn = "generate_real_estate_tasks" /\ out.exc = "none"

\* The compliance rule on the numbers the question prints.
CompliantAsPrinted(q) ==
    /\ q.proposed_building.front_setback >= q.front_setback
    /\ q.proposed_building.side_setback >= q.side_setback
    /\ q.proposed_building.width * q.proposed_building.length * 100
          <= q.max_coverage_percent * q.lot_size

\* C27: the stored answer of a zoning-compliance task is the compliance rule
\* applied to the numbers as the question prints them, and the max coverage
\* used for the answer is the value the question shows.
C27_AnswerFromPrintedNumbers ==
    ZoningReturned =>
        /\ out.val.answer = CompliantAsPrinted(out.val.question)
        /\ out.val.zoning.max_coverage = out.val.question.max_coverage_percent * 10

\* The stored answer is the rule applied to the stored zoning record, and the
\* setbacks, lot size and building of the question are the stored ones.
C27_AnswerFromStoredNumbers ==
    ZoningReturned =>
        /\ out.val.answer =
              (/\ out.val.proposed_building.front_setback >= out.val.zoning.front_setback
               /\ out.val.proposed_building.side_setback >= out.val.zoning.side_setback
               /\ out.val.proposed_building.width * out.val.proposed_building.length * 1000
                     <= out.val.zoning.max_coverage * out.val.lot_size)
        /\ out.val.question.lot_size = out.val.lot_size
        /\ out.val.question.proposed_building = out.val.proposed_building
        /\ out.val.question.front_setback = out.val.zoning.front_setback
        /\ out.val.question.side_setback = out.val.zoning.side_setback

=============================================================================
